---- MODULE Spec2Model ----
(***************************************************************************)
(* medimetry: clinical calculation functions.                              *)
(*                                                                         *)
(* Every function of the library is a pure function of its arguments.      *)
(* The state machine below is a caller: from the idle state it calls one   *)
(* function with arguments drawn from a bounded set, records the function, *)
(* the arguments and the outcome (a returned value or a raised error), and *)
(* returns to idle.  There is one call action per library function and one *)
(* specification per library module.                                       *)
(*                                                                         *)
(* Numbers.  Integers of the source are integers.  Floats are decimal      *)
(* fixed-point numbers; each section states the scale it counts in (liver  *)
(* laboratory values and percentages in tenths, weights, heights and BMI   *)
(* values in hundredths, and so on).  Arithmetic on them is exact;         *)
(* round(x, n) is Python's round-half-even.  A value that integer          *)
(* arithmetic cannot compute (a real power, a root) is kept as a term      *)
(* naming the expression and its arguments.                                *)
(***************************************************************************)
EXTENDS Integers, Sequences, FiniteSets, TLC

VARIABLES fn, args, out

vars == <<fn, args, out>>

(* Half-width of the window of inputs tried around every threshold the     *)
(* source compares against.                                                *)
Margin == 1

Window(c) == (c - Margin)..(c + Margin)

NoArgs == [none |-> TRUE]

NoOut == [none |-> TRUE]

(* The outcome of a call: a returned value, or a raised exception.         *)
Return(v) == [ok |-> TRUE, val |-> v]

Raise(kind, message) == [ok |-> FALSE, err |-> kind, msg |-> message]

(* An optional argument: <<>> when it is None or left out, <<v>> for v.    *)
None == <<>>

Some(n) == <<n>>

(* The integer nearest to n / d (d > 0), ties to the even one: Python's    *)
(* round().                                                                *)
RoundHalfEven(n, d) ==
    LET q == n \div d
        r == n % d
    IN  IF 2 * r < d THEN q
        ELSE IF 2 * r > d THEN q + 1
        ELSE IF q % 2 = 0 THEN q ELSE q + 1

Init ==
    /\ fn = "idle"
    /\ args = NoArgs
    /\ out = NoOut

(* The caller takes the outcome and is ready for the next call.            *)
Done ==
    /\ fn # "idle"
    /\ fn' = "idle"
    /\ args' = NoArgs
    /\ out' = NoOut

(***************************************************************************)
(* neuro.py: Glasgow Coma Scale                                            *)
(***************************************************************************)

Member(e, n, v) == [enum |-> e, name |-> n, value |-> v]

EyeResponse ==
    { Member("EyeResponse", "NOT_TESTABLE", -20),
      Member("EyeResponse", "NONE", 1),
      Member("EyeResponse", "TO_PAIN", 2),
      Member("EyeResponse", "TO_VERBAL", 3),
      Member("EyeResponse", "SPONTANEOUS", 4) }

VerbalResponse ==
    { Member("VerbalResponse", "NOT_TESTABLE", -20),
      Member("VerbalResponse", "NONE", 1),
      Member("VerbalResponse", "INCOMPREHENSIBLE_SOUNDS", 2),
      Member("VerbalResponse", "INAPPROPRIATE_WORDS", 3),
      Member("VerbalResponse", "CONFUSED", 4),
      Member("VerbalResponse", "ORIENTED", 5) }

MotorResponse ==
    { Member("MotorResponse", "NOT_TESTABLE", -20),
      Member("MotorResponse", "NONE", 1),
      Member("MotorResponse", "EXTENSION_TO_PAIN", 2),
      Member("MotorResponse", "FLEXION_TO_PAIN", 3),
      Member("MotorResponse", "WITHDRAWAL_FROM_PAIN", 4),
      Member("MotorResponse", "LOCALIZES_PAIN", 5),
      Member("MotorResponse", "OBEYS_COMMANDS", 6) }

GCSCategory == {"SEVERE", "MODERATE", "MILD"}

(* isinstance(x, cls) for the values the caller passes: enumeration        *)
(* members and plain integers.                                             *)
IsInstance(x, cls) == x.enum = cls

gcs_category_mutant(total_score) ==
    IF total_score < 8 THEN "SEVERE"
    ELSE IF total_score <= 12 THEN "MODERATE"
    ELSE "MILD"

(* neuro.py lines 74-80: the severity ladder.                              *)
gcs_category(total_score) ==
    IF total_score <= 8 THEN "SEVERE"
    ELSE IF total_score <= 12 THEN "MODERATE"
    ELSE "MILD"

glasgow_coma_scale(eye_response, verbal_response, motor_response) ==
    IF ~IsInstance(eye_response, "EyeResponse")
    THEN Raise("ValueError", "Eye response must be an EyeResponse enum")
    ELSE IF ~IsInstance(verbal_response, "VerbalResponse")
    THEN Raise("ValueError", "Verbal response must be a VerbalResponse enum")
    ELSE IF ~IsInstance(motor_response, "MotorResponse")
    THEN Raise("ValueError", "Motor response must be a MotorResponse enum")
    ELSE LET total_score == eye_response.value + verbal_response.value
                            + motor_response.value
         IN  Return([score |-> total_score, category |-> gcs_category(total_score)])

(* Enum(value): the member with that value, or ValueError.                 *)
HasValue(enum, v) == \E m \in enum : m.value = v

ByValue(enum, v) == CHOOSE m \in enum : m.value = v

gcs_from_scores_mutant(eye, verbal, motor) ==
    IF ~(1 <= eye /\ eye <= 4)
    THEN Raise("ValueError", "Eye response must be between 1 and 4")
    ELSE IF ~(1 <= motor /\ motor <= 6)
    THEN Raise("ValueError", "Motor response must be between 1 and 6")
    ELSE IF ~(1 <= verbal /\ verbal <= 5)
    THEN Raise("ValueError", "Verbal response must be between 1 and 5")
    ELSE glasgow_coma_scale(ByValue(EyeResponse, eye),
                            ByValue(VerbalResponse, verbal),
                            ByValue(MotorResponse, motor))

gcs_from_scores(eye, verbal, motor) ==
    IF ~(1 <= eye /\ eye <= 4)
    THEN Raise("ValueError", "Eye response must be between 1 and 4")
    ELSE IF ~(1 <= verbal /\ verbal <= 5)
    THEN Raise("ValueError", "Verbal response must be between 1 and 5")
    ELSE IF ~(1 <= motor /\ motor <= 6)
    THEN Raise("ValueError", "Motor response must be between 1 and 6")
    ELSE IF ~HasValue(EyeResponse, eye)
    THEN Raise("ValueError", "not a valid EyeResponse")
    ELSE IF ~HasValue(VerbalResponse, verbal)
    THEN Raise("ValueError", "not a valid VerbalResponse")
    ELSE IF ~HasValue(MotorResponse, motor)
    THEN Raise("ValueError", "not a valid MotorResponse")
    ELSE glasgow_coma_scale(ByValue(EyeResponse, eye),
                            ByValue(VerbalResponse, verbal),
                            ByValue(MotorResponse, motor))

(* What a caller may pass as a response: any member of the three           *)
(* enumerations, or a plain integer where a member is expected.            *)
ResponseInputs ==
    EyeResponse \cup VerbalResponse \cup MotorResponse
        \cup { Member("int", "int", 3) }

(* Integer scores tried: around the NOT_TESTABLE value and across the      *)
(* documented ranges, one Margin beyond each end.                          *)
ScoreInputs == Window(-20) \cup ((1 - Margin)..(6 + Margin))

Call_glasgow_coma_scale ==
    /\ fn = "idle"
    /\ \E e \in ResponseInputs, v \in ResponseInputs, m \in ResponseInputs :
          /\ fn' = "glasgow_coma_scale"
          /\ args' = [eye_response |-> e, verbal_response |-> v,
                      motor_response |-> m]
          /\ out' = glasgow_coma_scale(e, v, m)

Call_gcs_from_scores ==
    /\ fn = "idle"
    /\ \E e \in ScoreInputs, v \in ScoreInputs, m \in ScoreInputs :
          /\ fn' = "gcs_from_scores"
          /\ args' = [eye |-> e, verbal |-> v, motor |-> m]
          /\ out' = gcs_from_scores(e, v, m)

NextNeuro ==
    \/ Call_glasgow_coma_scale
    \/ Call_gcs_from_scores
    \/ Done

SpecNeuro == Init /\ [][NextNeuro]_vars

(* C1: for every eye in 1..4, verbal in 1..5 and motor in 1..6,            *)
(* gcs_from_scores returns without error (eye+verbal+motor, category);     *)
(* the total lies in 3..15; the category is SEVERE exactly when total <= 8,*)
(* MODERATE exactly when 9 <= total <= 12, MILD exactly when total >= 13.  *)
C1_GcsFromScores ==
    (/\ fn = "gcs_from_scores"
     /\ args.eye \in 1..4 /\ args.verbal \in 1..5 /\ args.motor \in 1..6)
    => /\ out.ok
       /\ out.val.score = args.eye + args.verbal + args.motor
       /\ out.val.score \in 3..15
       /\ out.val.category \in GCSCategory
       /\ (out.val.category = "SEVERE") <=> (out.val.score <= 8)
       /\ (out.val.category = "MODERATE")
             <=> (9 <= out.val.score /\ out.val.score <= 12)
       /\ (out.val.category = "MILD") <=> (out.val.score >= 13)

(* A call on the SEVERE/MODERATE boundary: total 8.                        *)
C1_Witness ==
    /\ fn = "gcs_from_scores"
    /\ args.eye = 2 /\ args.verbal = 3 /\ args.motor = 3
    /\ out.ok
    /\ out.val.score = 8
    /\ out.val.category = "SEVERE"

(* C2: for every combination of members of EyeResponse, VerbalResponse    *)
(* and MotorResponse (NOT_TESTABLE included) glasgow_coma_scale succeeds   *)
(* and the returned total lies in 3..15.                                   *)
C2_GcsTotalInRange ==
    (/\ fn = "glasgow_coma_scale"
     /\ args.eye_response \in EyeResponse
     /\ args.verbal_response \in VerbalResponse
     /\ args.motor_response \in MotorResponse)
    => /\ out.ok
       /\ out.val.score \in 3..15

(* C25: gcs_from_scores validates the three integers independently in the  *)
(* order eye (1..4), verbal (1..5), motor (1..6) and raises the            *)
(* invalid-input error naming the first component that is out of range; it *)
(* therefore never passes a NOT_TESTABLE response to glasgow_coma_scale,   *)
(* and for in-range integers its result equals glasgow_coma_scale applied  *)
(* to the enumeration members with those values.                           *)
C25_GcsFromScoresValidation ==
    fn = "gcs_from_scores"
    => LET invalid(message) ==
               ~out.ok /\ out.err = "ValueError" /\ out.msg = message
           member(enum, v) == CHOOSE m \in enum : m.value = v
       IN  /\ IF args.eye \notin 1..4
              THEN invalid("Eye response must be between 1 and 4")
              ELSE IF args.verbal \notin 1..5
              THEN invalid("Verbal response must be between 1 and 5")
              ELSE IF args.motor \notin 1..6
              THEN invalid("Motor response must be between 1 and 6")
              ELSE /\ out = glasgow_coma_scale(member(EyeResponse, args.eye),
                                               member(VerbalResponse,
                                                      args.verbal),
                                               member(MotorResponse,
                                                      args.motor))
                   /\ member(EyeResponse, args.eye).name # "NOT_TESTABLE"
                   /\ member(VerbalResponse, args.verbal).name
                          # "NOT_TESTABLE"
                   /\ member(MotorResponse, args.motor).name # "NOT_TESTABLE"
           /\ (args.eye = -20 \/ args.verbal = -20 \/ args.motor = -20)
              => ~out.ok

(* Verbal and motor both out of range: the verbal component is named.      *)
C25_Witness ==
    /\ fn = "gcs_from_scores"
    /\ args.eye = 4 /\ args.verbal = 6 /\ args.motor = 7
    /\ ~out.ok
    /\ out.msg = "Verbal response must be between 1 and 5"

(* The value of NOT_TESTABLE is rejected as a motor score.                 *)
C25_WitnessNotTestable ==
    /\ fn = "gcs_from_scores"
    /\ args.eye = 4 /\ args.verbal = 5 /\ args.motor = -20
    /\ ~out.ok
    /\ out.msg = "Motor response must be between 1 and 6"

(***************************************************************************)
(* metabolic.py: Child-Pugh score.  Bilirubin (mg/dl), albumin (g/dl) and  *)
(* INR are counted in tenths: 2.0 is 20, 2.8 is 28, 1.7 is 17.             *)
(***************************************************************************)

ChildPughGrade == {"A", "B", "C"}

AscitesSeverity == {"none", "slight", "moderate"}

EncephalopathyGrade == {"none", "grade1-2", "grade3-4"}

bilirubin_points_mutant(bilirubin) ==
    IF bilirubin < 20 THEN 1
    ELSE IF bilirubin < 30 THEN 2
    ELSE 3

(* metabolic.py lines 66-71 *)
bilirubin_points(bilirubin) ==
    IF bilirubin < 20 THEN 1
    ELSE IF bilirubin <= 30 THEN 2
    ELSE 3

(* metabolic.py lines 74-79 *)
albumin_points(albumin) ==
    IF albumin > 35 THEN 1
    ELSE IF albumin >= 28 THEN 2
    ELSE 3

(* metabolic.py lines 82-87 *)
inr_points(inr) ==
    IF inr < 17 THEN 1
    ELSE IF inr <= 23 THEN 2
    ELSE 3

(* metabolic.py lines 90-95 *)
ascites_points(ascites) ==
    IF ascites = "none" THEN 1
    ELSE IF ascites = "slight" THEN 2
    ELSE 3

(* metabolic.py lines 98-103 *)
encephalopathy_points(encephalopathy) ==
    IF encephalopathy = "none" THEN 1
    ELSE IF encephalopathy = "grade1-2" THEN 2
    ELSE 3

child_pugh_grade_mutant(score) ==
    IF score <= 6 THEN "A"
    ELSE IF score < 9 THEN "B"
    ELSE "C"

(* metabolic.py lines 106-111 *)
child_pugh_grade(score) ==
    IF score <= 6 THEN "A"
    ELSE IF score <= 9 THEN "B"
    ELSE "C"

(* The outcome of "value not in Enumeration" for a value that is no member  *)
(* (and no member's value) depends on the interpreter: Python 3.12 and     *)
(* later answer True and the function raises its ValueError; earlier       *)
(* versions raise TypeError from the membership test itself.               *)
NonMemberOutcomes(message) ==
    {Raise("ValueError", message),
     Raise("TypeError", "unsupported operand type(s) for 'in'")}

(* The set of outcomes the call can have: one outcome, except for a        *)
(* selector that is no member of its enumeration.                          *)
child_pugh_score(bilirubin, albumin, inr, ascites, encephalopathy) ==
    IF bilirubin < 0
    THEN {Raise("ValueError", "Bilirubin must be non-negative")}
    ELSE IF albumin < 0
    THEN {Raise("ValueError", "Albumin must be non-negative")}
    ELSE IF inr < 0
    THEN {Raise("ValueError", "INR must be non-negative")}
    ELSE IF ascites \notin AscitesSeverity
    THEN NonMemberOutcomes("Unsupported ascites severity")
    ELSE IF encephalopathy \notin EncephalopathyGrade
    THEN NonMemberOutcomes("Unsupported encephalopathy grade")
    ELSE LET score == bilirubin_points(bilirubin) + albumin_points(albumin)
                      + inr_points(inr) + ascites_points(ascites)
                      + encephalopathy_points(encephalopathy)
         IN  {Return([score |-> score, grade |-> child_pugh_grade(score)])}

(* Laboratory values tried: around zero and around each threshold.         *)
BilirubinInputs == Window(0) \cup Window(20) \cup Window(30)

AlbuminInputs == Window(0) \cup Window(28) \cup Window(35)

InrInputs == Window(0) \cup Window(17) \cup Window(23)

AscitesInputs == AscitesSeverity \cup {"somewhat"}

EncephalopathyInputs == EncephalopathyGrade \cup {"grade17"}

Call_child_pugh_score ==
    /\ fn = "idle"
    /\ \E b \in BilirubinInputs, a \in AlbuminInputs, i \in InrInputs,
          s \in AscitesInputs, e \in EncephalopathyInputs :
          /\ fn' = "child_pugh_score"
          /\ args' = [bilirubin |-> b, albumin |-> a, inr |-> i,
                      ascites |-> s, encephalopathy |-> e]
          /\ out' \in child_pugh_score(b, a, i, s, e)

NextMetabolic ==
    \/ Call_child_pugh_score
    \/ Done

SpecMetabolic == Init /\ [][NextMetabolic]_vars

(* The inputs child_pugh_score accepts. *)
ChildPughAccepted ==
    /\ fn = "child_pugh_score"
    /\ args.bilirubin >= 0 /\ args.albumin >= 0 /\ args.inr >= 0
    /\ args.ascites \in AscitesSeverity
    /\ args.encephalopathy \in EncephalopathyGrade

(* C3: for every accepted input the Child-Pugh score lies in 5..15 and the *)
(* grade is A exactly when score <= 6, B exactly when 7 <= score <= 9 and  *)
(* C exactly when score >= 10; all-best inputs give (5, A) and all-worst   *)
(* inputs give (15, C).                                                    *)
C3_ChildPughRangeAndGrade ==
    ChildPughAccepted
    => /\ out.ok
       /\ out.val.score \in 5..15
       /\ out.val.grade \in ChildPughGrade
       /\ (out.val.grade = "A") <=> (out.val.score <= 6)
       /\ (out.val.grade = "B") <=> (7 <= out.val.score /\ out.val.score <= 9)
       /\ (out.val.grade = "C") <=> (out.val.score >= 10)
       /\ (/\ args.bilirubin < 20 /\ args.albumin > 35 /\ args.inr < 17
           /\ args.ascites = "none" /\ args.encephalopathy = "none")
          => (out.val.score = 5 /\ out.val.grade = "A")
       /\ (/\ args.bilirubin > 30 /\ args.albumin < 28 /\ args.inr > 23
           /\ args.ascites = "moderate" /\ args.encephalopathy = "grade3-4")
          => (out.val.score = 15 /\ out.val.grade = "C")

(* A call on the B/C boundary: 2 + 2 + 2 + 2 + 1 = 9 is still grade B.     *)
C3_Witness ==
    /\ ChildPughAccepted
    /\ out.ok
    /\ out.val.score = 9
    /\ out.val.grade = "B"

(* C4: the per-parameter ladder with its inclusive boundaries: bilirubin   *)
(* < 2.0 gives 1, 2.0..3.0 gives 2, > 3.0 gives 3; albumin > 3.5 gives 1,  *)
(* 2.8..3.5 gives 2, < 2.8 gives 3; INR < 1.7 gives 1, 1.7..2.3 gives 2,   *)
(* > 2.3 gives 3; ascites none/slight/moderate and encephalopathy          *)
(* none/grade1-2/grade3-4 give 1/2/3.  The score is the sum of the five.   *)
C4_ChildPughLadder ==
    ChildPughAccepted
    => LET b == args.bilirubin
           a == args.albumin
           i == args.inr
           pb == CASE b < 20 -> 1 [] 20 <= b /\ b <= 30 -> 2 [] b > 30 -> 3
           pa == CASE a > 35 -> 1 [] 28 <= a /\ a <= 35 -> 2 [] a < 28 -> 3
           pi == CASE i < 17 -> 1 [] 17 <= i /\ i <= 23 -> 2 [] i > 23 -> 3
           ps == CASE args.ascites = "none" -> 1
                   [] args.ascites = "slight" -> 2
                   [] args.ascites = "moderate" -> 3
           pe == CASE args.encephalopathy = "none" -> 1
                   [] args.encephalopathy = "grade1-2" -> 2
                   [] args.encephalopathy = "grade3-4" -> 3
       IN  out.ok /\ out.val.score = pb + pa + pi + ps + pe

(* Every laboratory value on an inclusive boundary: bilirubin 3.0,         *)
(* albumin 2.8, INR 2.3 score 2 points each.                               *)
C4_Witness ==
    /\ ChildPughAccepted
    /\ args.bilirubin = 30 /\ args.albumin = 28 /\ args.inr = 23
    /\ args.ascites = "none" /\ args.encephalopathy = "none"
    /\ out.ok
    /\ out.val.score = 8

(* C21: child_pugh_score raises the invalid-input error, checked in this   *)
(* order, when bilirubin < 0, albumin < 0, INR < 0, ascites is not an      *)
(* AscitesSeverity value, or encephalopathy is not an EncephalopathyGrade  *)
(* value, and returns no partial result; zero is accepted for all three    *)
(* laboratory values (all zero with no ascites and no encephalopathy gives *)
(* score 7, grade B).                                                      *)
C21_ChildPughValidation ==
    fn = "child_pugh_score"
    => LET invalid(message) ==
               ~out.ok /\ out.err = "ValueError" /\ out.msg = message
       IN  /\ IF args.bilirubin < 0
              THEN invalid("Bilirubin must be non-negative")
              ELSE IF args.albumin < 0
              THEN invalid("Albumin must be non-negative")
              ELSE IF args.inr < 0
              THEN invalid("INR must be non-negative")
              ELSE IF args.ascites \notin AscitesSeverity
              THEN invalid("Unsupported ascites severity")
              ELSE IF args.encephalopathy \notin EncephalopathyGrade
              THEN invalid("Unsupported encephalopathy grade")
              ELSE out.ok
           /\ (/\ args.bilirubin = 0 /\ args.albumin = 0 /\ args.inr = 0
               /\ args.ascites = "none" /\ args.encephalopathy = "none")
              => out = Return([score |-> 7, grade |-> "B"])

(***************************************************************************)
(* cardio.py: CHA2DS2-VASc.  cardio.py imports the sex enumeration under   *)
(* the name Sex; constants.py defines it (as Gender) with the members      *)
(* MALE = "m", FEMALE = "f", DIVERSE = "d".                                *)
(***************************************************************************)

Sex == {"m", "f", "d"}

MALE == "m"

FEMALE == "f"

chads_age_points_mutant(age) ==
    IF age > 75 THEN 2
    ELSE IF age >= 65 THEN 1
    ELSE 0

(* cardio.py lines 58-62 *)
chads_age_points(age) ==
    IF age >= 75 THEN 2
    ELSE IF age >= 65 THEN 1
    ELSE 0

chads_vasc_score(age, sex, chf, hypertension, stroke_vascular_history, diabetes, vascular_disease) ==
    IF age <= 0
    THEN Raise("ValueError", "Age must be non-negative")
    ELSE IF sex \notin {MALE, FEMALE}
    THEN Raise("AssertionError", "Sex must be Sex.MALE or Sex.FEMALE")
    ELSE Return(chads_age_points(age)
                + (IF sex = FEMALE THEN 1 ELSE 0)
                + (IF chf THEN 1 ELSE 0)
                + (IF hypertension THEN 1 ELSE 0)
                + (IF diabetes THEN 1 ELSE 0)
                + (IF vascular_disease THEN 1 ELSE 0)
                + (IF stroke_vascular_history THEN 2 ELSE 0))

(* Ages tried: around zero, a young adult, and the two age brackets.       *)
ChadsAgeInputs == Window(0) \cup Window(30) \cup Window(65) \cup Window(75)

SexInputs == Sex \cup {"invalid"}

Call_chads_vasc_score ==
    /\ fn = "idle"
    /\ \E age \in ChadsAgeInputs, sex \in SexInputs, chf \in BOOLEAN,
          hypertension \in BOOLEAN, stroke_vascular_history \in BOOLEAN,
          diabetes \in BOOLEAN, vascular_disease \in BOOLEAN :
          /\ fn' = "chads_vasc_score"
          /\ args' = [age |-> age, sex |-> sex, chf |-> chf,
                      hypertension |-> hypertension,
                      stroke_vascular_history |-> stroke_vascular_history,
                      diabetes |-> diabetes,
                      vascular_disease |-> vascular_disease]
          /\ out' = chads_vasc_score(age, sex, chf, hypertension,
                                     stroke_vascular_history, diabetes,
                                     vascular_disease)

(* round((2 * diastolic + systolic) / 3, 1), returned in tenths of mm Hg.   *)
map_value_rounded(systolic, diastolic) ==
    RoundHalfEven(10 * (2 * diastolic + systolic), 3)

mean_arterial_pressure_mutant(systolic, diastolic) ==
    IF systolic <= 0
    THEN Raise("ValueError", "Systolic pressure must be non-negative")
    ELSE IF diastolic <= 0
    THEN Raise("ValueError", "Diastolic pressure must be non-negative")
    ELSE IF diastolic > systolic
    THEN Raise("ValueError",
               "Diastolic pressure must be greater than systolic pressure. ")
    ELSE Return(map_value_rounded(systolic, diastolic))

(* Pressures are integers (mm Hg); the result is counted in tenths.        *)
mean_arterial_pressure(systolic, diastolic) ==
    IF systolic <= 0
    THEN Raise("ValueError", "Systolic pressure must be non-negative")
    ELSE IF diastolic <= 0
    THEN Raise("ValueError", "Diastolic pressure must be non-negative")
    ELSE IF diastolic >= systolic
    THEN Raise("ValueError",
               "Diastolic pressure must be greater than systolic pressure. ")
    ELSE Return(map_value_rounded(systolic, diastolic))

calcium_value_rounded_mutant(total_calcium, albumin) ==
    RoundHalfEven(50 * total_calcium + 4 * (albumin - 4000), 50)

(* round(total_calcium + 0.8 * (normal_calcium - albumin), 2).  Calcium    *)
(* (mg/dL) is counted in hundredths and albumin (g/dL) in thousandths, 4.0 *)
(* is 4000 and 0.8 is 4/5: the sum is                                      *)
(* (50 * total_calcium + 4 * (4000 - albumin)) / 5 thousandths; the        *)
(* rounded value is returned in hundredths.  No such sum lies halfway      *)
(* between two hundredths.                                                 *)
calcium_value_rounded(total_calcium, albumin) ==
    RoundHalfEven(50 * total_calcium + 4 * (4000 - albumin), 50)

calcium_correction(total_calcium, albumin) ==
    IF total_calcium < 0
    THEN Raise("ValueError", "Total calcium must be non-negative")
    ELSE IF albumin < 0
    THEN Raise("ValueError", "Albumin must be non-negative")
    ELSE Return(calcium_value_rounded(total_calcium, albumin))

(* Pressures tried: around zero and around 80 and 120 mm Hg.               *)
PressureInputs == Window(0) \cup Window(80) \cup Window(120)

(* Calcium values tried: around zero and around 9.0 mg/dL.                 *)
CalciumInputs == Window(0) \cup Window(900)

(* Albumin values tried: around zero, around 4.0 g/dL and 0.02 g/dL to     *)
(* either side of it.                                                      *)
CalciumAlbuminInputs ==
    Window(0) \cup Window(3980) \cup Window(4000) \cup Window(4020)

Call_mean_arterial_pressure ==
    /\ fn = "idle"
    /\ \E systolic \in PressureInputs, diastolic \in PressureInputs :
          /\ fn' = "mean_arterial_pressure"
          /\ args' = [systolic |-> systolic, diastolic |-> diastolic]
          /\ out' = mean_arterial_pressure(systolic, diastolic)

Call_calcium_correction ==
    /\ fn = "idle"
    /\ \E total_calcium \in CalciumInputs, albumin \in CalciumAlbuminInputs :
          /\ fn' = "calcium_correction"
          /\ args' = [total_calcium |-> total_calcium, albumin |-> albumin]
          /\ out' = calcium_correction(total_calcium, albumin)

NextCardio ==
    \/ Call_chads_vasc_score
    \/ Call_mean_arterial_pressure
    \/ Call_calcium_correction
    \/ Done

SpecCardio == Init /\ [][NextCardio]_vars

(* The same call with another value for the stroke history. *)
ChadsWithStroke(a, stroke) ==
    chads_vasc_score(a.age, a.sex, a.chf, a.hypertension, stroke,
                     a.diabetes, a.vascular_disease)

(* C5: for every age > 0, sex in {MALE, FEMALE} and every assignment of    *)
(* the five risk factors chads_vasc_score returns agePoints + (1 if        *)
(* FEMALE) + chf + hypertension + diabetes + vascular_disease + 2 * stroke *)
(* history, with agePoints 2 for age >= 75, 1 for 65..74, 0 otherwise; the *)
(* result is in 0..9; setting the stroke history from false to true with   *)
(* the other inputs fixed raises the score by exactly 2.                   *)
C5_ChadsVasc ==
    (/\ fn = "chads_vasc_score"
     /\ args.age > 0
     /\ args.sex \in {MALE, FEMALE})
    => LET agePoints == CASE args.age >= 75 -> 2
                          [] 65 <= args.age /\ args.age <= 74 -> 1
                          [] OTHER -> 0
           bit(b) == IF b THEN 1 ELSE 0
       IN  /\ out.ok
           /\ out.val = agePoints + bit(args.sex = FEMALE) + bit(args.chf)
                        + bit(args.hypertension) + bit(args.diabetes)
                        + bit(args.vascular_disease)
                        + 2 * bit(args.stroke_vascular_history)
           /\ out.val \in 0..9
           /\ ChadsWithStroke(args, TRUE).val
                 = ChadsWithStroke(args, FALSE).val + 2

(* The highest score: a woman of 75 with every risk factor scores 9.       *)
C5_Witness ==
    /\ fn = "chads_vasc_score"
    /\ args.age = 75 /\ args.sex = FEMALE
    /\ args.chf /\ args.hypertension /\ args.stroke_vascular_history
    /\ args.diabetes /\ args.vascular_disease
    /\ out.ok
    /\ out.val = 9

(* C11: an unrecognized selector value fails with the same error kind as   *)
(* an out-of-range numeric argument of the same function: chads_vasc_score *)
(* called with a sex that is not MALE or FEMALE fails with the error kind  *)
(* of chads_vasc_score called with age <= 0.                               *)
C11_SelectorFailsLikeNumber ==
    (/\ fn = "chads_vasc_score"
     /\ args.age > 0
     /\ args.sex \notin {MALE, FEMALE})
    => /\ ~out.ok
       /\ out.err = chads_vasc_score(0, MALE, args.chf, args.hypertension,
                                     args.stroke_vascular_history,
                                     args.diabetes, args.vascular_disease).err

C18_WitnessValue ==
    /\ fn = "mean_arterial_pressure"
    /\ args.systolic = 120 /\ args.diastolic = 80
    /\ out.ok
    /\ out.val = 933

(* The validation and the formula of calcium_correction: total_calcium < 0 *)
(* raises, otherwise albumin < 0 raises, zero is accepted for both, and    *)
(* accepted inputs return total_calcium + 0.8 * (4.0 - albumin) rounded to *)
(* two decimal places.                                                     *)
CalciumFormula ==
    LET t == args.total_calcium
        a == args.albumin
    IN  IF t < 0
        THEN ~out.ok /\ out.err = "ValueError"
             /\ out.msg = "Total calcium must be non-negative"
        ELSE IF a < 0
        THEN ~out.ok /\ out.err = "ValueError"
             /\ out.msg = "Albumin must be non-negative"
        ELSE /\ out.ok
             \* out.val / 100 is the decimal nearest to t + 0.8 (4.0 - a)
             /\ 2 * (50 * out.val - (50 * t + 4 * (4000 - a))) <= 50
             /\ 2 * ((50 * t + 4 * (4000 - a)) - 50 * out.val) <= 50

(* The value calcium_correction returns for the same calcium at albumin    *)
(* 4.0, in hundredths.                                                     *)
CalciumAtNormalAlbumin == calcium_correction(args.total_calcium, 4000).val

BMICategory ==
    {"UNDERWEIGHT", "NORMAL", "OVERWEIGHT", "OBESE_CLASS_I", "OBESE_CLASS_II",
     "OBESE_CLASS_III"}

(* round(weight / height ** 2, 1): with weight and height in hundredths    *)
(* the quotient is 100 * weight / height^2, that is 1000 * weight /        *)
(* height^2 tenths; the rounded value is returned in hundredths.           *)
bmi_value_rounded(weight, height) ==
    10 * RoundHalfEven(1000 * weight, height * height)

bmi_mutant(weight, height) ==
    IF weight <= 0
    THEN Raise("ValueError", "Weight must be positive")
    ELSE IF height <= 0
    THEN Raise("ValueError", "Height must be positive")
    ELSE IF weight >= 30000
    THEN Raise("ValueError", "Weight must be lower than 300 kilograms")
    ELSE IF height > 300
    THEN Raise("ValueError",
               "Height must be lower than 3 meters (did you provide centimeters?)")
    ELSE Return(bmi_value_rounded(weight, height))

bmi(weight, height) ==
    IF weight <= 0
    THEN Raise("ValueError", "Weight must be positive")
    ELSE IF weight > 30000
    THEN Raise("ValueError", "Weight must be lower than 300 kilograms")
    ELSE IF height <= 0
    THEN Raise("ValueError", "Height must be positive")
    ELSE IF height > 300
    THEN Raise("ValueError",
               "Height must be lower than 3 meters (did you provide centimeters?)")
    ELSE Return(bmi_value_rounded(weight, height))

cm_to_m_mutant(height_cm) == height_cm \div 10

(* height_cm / 100 *)
cm_to_m(height_cm) == height_cm \div 100

(* height * 100, the centimetre value a caller passes for a height in      *)
(* metres.                                                                 *)
m_to_cm(height) == height * 100

bmi_from_cm(weight, height_cm) ==
    IF height_cm <= 0
    THEN Raise("ValueError", "Height must be positive")
    ELSE IF height_cm <= 1000
    THEN Raise("ValueError",
               "Height must be above 10 centimeters (did you provide meters?)")
    ELSE bmi(weight, cm_to_m(height_cm))

bmi_category_mutant(bmi_value) ==
    IF bmi_value <= 0
    THEN Raise("ValueError", "BMI must be positive")
    ELSE IF bmi_value <= 1850 THEN Return("UNDERWEIGHT")
    ELSE IF bmi_value < 2500 THEN Return("NORMAL")
    ELSE IF bmi_value < 3000 THEN Return("OVERWEIGHT")
    ELSE IF bmi_value < 3500 THEN Return("OBESE_CLASS_I")
    ELSE IF bmi_value < 4000 THEN Return("OBESE_CLASS_II")
    ELSE Return("OBESE_CLASS_III")

bmi_category(bmi_value) ==
    IF bmi_value <= 0
    THEN Raise("ValueError", "BMI must be positive")
    ELSE IF bmi_value < 1850 THEN Return("UNDERWEIGHT")
    ELSE IF bmi_value < 2500 THEN Return("NORMAL")
    ELSE IF bmi_value < 3000 THEN Return("OVERWEIGHT")
    ELSE IF bmi_value < 3500 THEN Return("OBESE_CLASS_I")
    ELSE IF bmi_value < 4000 THEN Return("OBESE_CLASS_II")
    ELSE Return("OBESE_CLASS_III")

(* An exception raised by bmi or by bmi_category passes through.           *)
bmi_with_category(weight, height) ==
    LET bmi_value == bmi(weight, height)
    IN  IF ~bmi_value.ok THEN bmi_value
        ELSE LET category == bmi_category(bmi_value.val)
             IN  IF ~category.ok THEN category
                 ELSE Return(<<bmi_value.val, category.val>>)

bmi_with_category_cm(weight, height_cm) ==
    LET bmi_value == bmi_from_cm(weight, height_cm)
    IN  IF ~bmi_value.ok THEN bmi_value
        ELSE LET category == bmi_category(bmi_value.val)
             IN  IF ~category.ok THEN category
                 ELSE Return(<<bmi_value.val, category.val>>)

(* Weights tried: around zero, 50 kg, 70 kg, 90 kg and the 300 kg limit.   *)
WeightInputs ==
    Window(0) \cup Window(5000) \cup Window(7000) \cup Window(9000)
        \cup Window(30000)

(* Heights in metres tried: around zero, 0.10 m, 1.60 m, 1.75 m and the    *)
(* 3 m limit.                                                              *)
HeightInputs ==
    Window(0) \cup Window(10) \cup Window(160) \cup Window(175)
        \cup Window(300)

(* Heights in centimetres tried: the same heights, in whole centimetres.   *)
HeightCmInputs == { m_to_cm(h) : h \in HeightInputs }

(* BMI values tried: around zero and around each category threshold.       *)
BmiValueInputs ==
    Window(0) \cup Window(1850) \cup Window(2500) \cup Window(3000)
        \cup Window(3500) \cup Window(4000)

Call_bmi ==
    /\ fn = "idle"
    /\ \E weight \in WeightInputs, height \in HeightInputs :
          /\ fn' = "bmi"
          /\ args' = [weight |-> weight, height |-> height]
          /\ out' = bmi(weight, height)

Call_bmi_from_cm ==
    /\ fn = "idle"
    /\ \E weight \in WeightInputs, height_cm \in HeightCmInputs :
          /\ fn' = "bmi_from_cm"
          /\ args' = [weight |-> weight, height_cm |-> height_cm]
          /\ out' = bmi_from_cm(weight, height_cm)

Call_bmi_with_category ==
    /\ fn = "idle"
    /\ \E weight \in WeightInputs, height \in HeightInputs :
          /\ fn' = "bmi_with_category"
          /\ args' = [weight |-> weight, height |-> height]
          /\ out' = bmi_with_category(weight, height)

Call_bmi_with_category_cm ==
    /\ fn = "idle"
    /\ \E weight \in WeightInputs, height_cm \in HeightCmInputs :
          /\ fn' = "bmi_with_category_cm"
          /\ args' = [weight |-> weight, height_cm |-> height_cm]
          /\ out' = bmi_with_category_cm(weight, height_cm)

Call_bmi_category ==
    /\ fn = "idle"
    /\ \E bmi_value \in BmiValueInputs :
          /\ fn' = "bmi_category"
          /\ args' = [bmi_value |-> bmi_value]
          /\ out' = bmi_category(bmi_value)

BSAFormula == {"DuBois", "Mosteller", "Haycock", "Gehan-George", "Boyd"}

DUBOIS == "DuBois"

MOSTELLER == "Mosteller"

HAYCOCK == "Haycock"

GEHAN_GEORGE == "Gehan-George"

BOYD == "Boyd"

(* The members of BSAFormula in the order of their definition, the order   *)
(* in which a loop over the enumeration visits them.                       *)
BSAFormulaOrder == <<DUBOIS, MOSTELLER, HAYCOCK, GEHAN_GEORGE, BOYD>>

(* The value of a power-law expression, rounded to two decimals.  Real     *)
(* powers and logarithms have no integer arithmetic; the value is kept as  *)
(* the term naming the expression and the numbers it is evaluated at.      *)
(* Equal terms are equal numbers; different terms may be equal numbers     *)
(* too.                                                                    *)
PowerLaw(expression, weight, height_cm) ==
    [expression |-> expression, weight |-> weight, height_cm |-> height_cm]

(* round(0.007184 * weight**0.425 * (height * 100)**0.725, 2)              *)
bsa_dubois(weight, height) ==
    IF weight <= 0 \/ height <= 0
    THEN Raise("ValueError", "Weight and height must be positive")
    ELSE Return(PowerLaw("0.007184 * weight**0.425 * height_cm**0.725",
                         weight, m_to_cm(height)))

(* round(sqrt(weight * height_cm / 3600), 2) in hundredths of a square     *)
(* metre: with weight and height_cm in hundredths the root is taken of     *)
(* weight * height_cm / 36000000 and the result r, at most 6.00, is the    *)
(* integer with (r - 1/2)^2 <= weight * height_cm / 3600 < (r + 1/2)^2    *)
(* (r = 0 below a half).                                                   *)
bsa_mosteller_value(weight, height_cm) ==
    CHOOSE r \in 0..600 :
        /\ r > 0 => (2 * r - 1) * (2 * r - 1) * 900 <= weight * height_cm
        /\ weight * height_cm < (2 * r + 1) * (2 * r + 1) * 900

bsa_mosteller(weight, height) ==
    IF weight <= 0 \/ height <= 0
    THEN Raise("ValueError", "Weight and height must be positive")
    ELSE Return(bsa_mosteller_value(weight, m_to_cm(height)))

(* round(0.024265 * weight**0.5378 * height_cm**0.3964, 2)                 *)
bsa_haycock(weight, height) ==
    IF weight <= 0 \/ height <= 0
    THEN Raise("ValueError", "Weight and height must be positive")
    ELSE Return(PowerLaw("0.024265 * weight**0.5378 * height_cm**0.3964",
                         weight, m_to_cm(height)))

(* round(0.0235 * weight**0.51456 * height_cm**0.42246, 2)                 *)
bsa_gehan_george(weight, height) ==
    IF weight <= 0 \/ height <= 0
    THEN Raise("ValueError", "Weight and height must be positive")
    ELSE Return(PowerLaw("0.0235 * weight**0.51456 * height_cm**0.42246",
                         weight, m_to_cm(height)))

(* round(0.03330 * weight**(0.6157 - 0.0188 * log10(weight))               *)
(*       * height_cm**0.3, 2)                                              *)
bsa_boyd(weight, height) ==
    IF weight <= 0 \/ height <= 0
    THEN Raise("ValueError", "Weight and height must be positive")
    ELSE Return(PowerLaw("0.03330 * weight**weight_exp * height_cm**0.3",
                         weight, m_to_cm(height)))

bsa_mutant(weight, height, formula) ==
    LET f == IF formula = None THEN MOSTELLER ELSE formula[1]
    IN  IF f = DUBOIS THEN bsa_dubois(weight, height)
        ELSE IF f = MOSTELLER THEN bsa_mosteller(weight, height)
        ELSE IF f = HAYCOCK THEN bsa_gehan_george(weight, height)
        ELSE IF f = GEHAN_GEORGE THEN bsa_haycock(weight, height)
        ELSE IF f = BOYD THEN bsa_boyd(weight, height)
        ELSE Raise("ValueError", "Unknown BSA formula: " \o f)

(* formula is None when the caller leaves it out: the default is           *)
(* BSAFormula.MOSTELLER.                                                   *)
bsa(weight, height, formula) ==
    LET f == IF formula = None THEN MOSTELLER ELSE formula[1]
    IN  IF f = DUBOIS THEN bsa_dubois(weight, height)
        ELSE IF f = MOSTELLER THEN bsa_mosteller(weight, height)
        ELSE IF f = HAYCOCK THEN bsa_haycock(weight, height)
        ELSE IF f = GEHAN_GEORGE THEN bsa_gehan_george(weight, height)
        ELSE IF f = BOYD THEN bsa_boyd(weight, height)
        ELSE Raise("ValueError", "Unknown BSA formula: " \o f)

bsa_from_cm(weight, height_cm, formula) ==
    IF height_cm <= 0
    THEN Raise("ValueError", "Height must be positive")
    ELSE bsa(weight, cm_to_m(height_cm), formula)

(* The loop fills the dictionary in the order of the enumeration; the      *)
(* first call of bsa that raises ends it.                                  *)
bsa_all_formulas(weight, height) ==
    LET results == [i \in 1..Len(BSAFormulaOrder) |->
                        bsa(weight, height, Some(BSAFormulaOrder[i]))]
        failed == {i \in 1..Len(BSAFormulaOrder) : ~results[i].ok}
    IN  IF failed # {}
        THEN results[CHOOSE i \in failed : \A j \in failed : i <= j]
        ELSE Return([name \in {BSAFormulaOrder[i] :
                                  i \in 1..Len(BSAFormulaOrder)} |->
                        bsa(weight, height, Some(name)).val])

(* Formulas tried: left out, each member, and a value that is no member.   *)
FormulaInputs ==
    {None} \cup {Some(f) : f \in BSAFormula \cup {"invalid formula"}}

Call_bsa_dubois ==
    /\ fn = "idle"
    /\ \E weight \in WeightInputs, height \in HeightInputs :
          /\ fn' = "bsa_dubois"
          /\ args' = [weight |-> weight, height |-> height]
          /\ out' = bsa_dubois(weight, height)

Call_bsa_mosteller ==
    /\ fn = "idle"
    /\ \E weight \in WeightInputs, height \in HeightInputs :
          /\ fn' = "bsa_mosteller"
          /\ args' = [weight |-> weight, height |-> height]
          /\ out' = bsa_mosteller(weight, height)

Call_bsa_haycock ==
    /\ fn = "idle"
    /\ \E weight \in WeightInputs, height \in HeightInputs :
          /\ fn' = "bsa_haycock"
          /\ args' = [weight |-> weight, height |-> height]
          /\ out' = bsa_haycock(weight, height)

Call_bsa_gehan_george ==
    /\ fn = "idle"
    /\ \E weight \in WeightInputs, height \in HeightInputs :
          /\ fn' = "bsa_gehan_george"
          /\ args' = [weight |-> weight, height |-> height]
          /\ out' = bsa_gehan_george(weight, height)

Call_bsa_boyd ==
    /\ fn = "idle"
    /\ \E weight \in WeightInputs, height \in HeightInputs :
          /\ fn' = "bsa_boyd"
          /\ args' = [weight |-> weight, height |-> height]
          /\ out' = bsa_boyd(weight, height)

Call_bsa ==
    /\ fn = "idle"
    /\ \E weight \in WeightInputs, height \in HeightInputs,
          formula \in FormulaInputs :
          /\ fn' = "bsa"
          /\ args' = [weight |-> weight, height |-> height,
                      formula |-> formula]
          /\ out' = bsa(weight, height, formula)

Call_bsa_from_cm ==
    /\ fn = "idle"
    /\ \E weight \in WeightInputs, height_cm \in HeightCmInputs,
          formula \in FormulaInputs :
          /\ fn' = "bsa_from_cm"
          /\ args' = [weight |-> weight, height_cm |-> height_cm,
                      formula |-> formula]
          /\ out' = bsa_from_cm(weight, height_cm, formula)

Call_bsa_all_formulas ==
    /\ fn = "idle"
    /\ \E weight \in WeightInputs, height \in HeightInputs :
          /\ fn' = "bsa_all_formulas"
          /\ args' = [weight |-> weight, height |-> height]
          /\ out' = bsa_all_formulas(weight, height)

NextAnthropometric ==
    \/ Call_bmi
    \/ Call_bmi_from_cm
    \/ Call_bmi_category
    \/ Call_bmi_with_category
    \/ Call_bmi_with_category_cm
    \/ Call_bsa_dubois
    \/ Call_bsa_mosteller
    \/ Call_bsa_haycock
    \/ Call_bsa_gehan_george
    \/ Call_bsa_boyd
    \/ Call_bsa
    \/ Call_bsa_from_cm
    \/ Call_bsa_all_formulas
    \/ Done

SpecAnthropometric == Init /\ [][NextAnthropometric]_vars

(* A call of bmi with weight in (0, 300] and height in (0, 3]. *)
BmiInRange ==
    /\ fn = "bmi"
    /\ 0 < args.weight /\ args.weight <= 30000
    /\ 0 < args.height /\ args.height <= 300

C7_BmiCategoryHalfOpen ==
    fn = "bmi_category"
    => LET v == args.bmi_value
       IN  /\ v <= 0 => (~out.ok /\ out.err = "ValueError")
           /\ v > 0 =>
                /\ out.ok
                /\ out.val \in BMICategory
                /\ (out.val = "UNDERWEIGHT") <=> (v < 1850)
                /\ (out.val = "NORMAL") <=> (1850 <= v /\ v < 2500)
                /\ (out.val = "OVERWEIGHT") <=> (2500 <= v /\ v < 3000)
                /\ (out.val = "OBESE_CLASS_I") <=> (3000 <= v /\ v < 3500)
                /\ (out.val = "OBESE_CLASS_II") <=> (3500 <= v /\ v < 4000)
                /\ (out.val = "OBESE_CLASS_III") <=> (4000 <= v)

(* The threshold 18.5 itself belongs to NORMAL.                            *)
C7_Witness ==
    /\ fn = "bmi_category"
    /\ args.bmi_value = 1850
    /\ out.ok
    /\ out.val = "NORMAL"

(* C16: bsa(weight, height, formula) returns, for each of the five         *)
(* BSAFormula members, exactly the result of the corresponding             *)
(* single-formula function; omitting the formula is the same as passing    *)
(* MOSTELLER; any other formula value raises the invalid-input error;      *)
(* bsa_all_formulas returns exactly five entries, one per formula name,    *)
(* each equal to bsa with that formula.                                    *)
C16_BsaDispatch ==
    /\ fn = "bsa" =>
         LET w == args.weight
             h == args.height
             f == args.formula
         IN  /\ f = Some(DUBOIS) => out = bsa_dubois(w, h)
             /\ f = Some(MOSTELLER) => out = bsa_mosteller(w, h)
             /\ f = Some(HAYCOCK) => out = bsa_haycock(w, h)
             /\ f = Some(GEHAN_GEORGE) => out = bsa_gehan_george(w, h)
             /\ f = Some(BOYD) => out = bsa_boyd(w, h)
             /\ f = None => out = bsa(w, h, Some(MOSTELLER))
             /\ (f # None /\ f[1] \notin BSAFormula)
                    => ~out.ok /\ out.err = "ValueError"
    /\ (fn = "bsa_all_formulas" /\ out.ok) =>
         /\ DOMAIN out.val
                = {"DuBois", "Mosteller", "Haycock", "Gehan-George", "Boyd"}
         /\ Cardinality(DOMAIN out.val) = 5
         /\ \A name \in DOMAIN out.val :
               Return(out.val[name])
                   = bsa(args.weight, args.height, Some(name))

(* bsa(70, 1.75, HAYCOCK) returns what bsa_haycock(70, 1.75) returns.      *)
C16_Witness ==
    /\ fn = "bsa"
    /\ args.weight = 7000 /\ args.height = 175
    /\ args.formula = Some(HAYCOCK)
    /\ out.ok
    /\ out = bsa_haycock(7000, 175)

(* bsa_all_formulas(70, 1.75) has five entries; Mosteller's is 1.84.       *)
C16_WitnessAllFormulas ==
    /\ fn = "bsa_all_formulas"
    /\ args.weight = 7000 /\ args.height = 175
    /\ out.ok
    /\ Cardinality(DOMAIN out.val) = 5
    /\ out.val[MOSTELLER] = 184

(* C22: bmi(weight, height) checks its arguments in the fixed order weight *)
(* <= 0, weight > 300, height <= 0, height > 3 and raises the              *)
(* invalid-input error for the first violated constraint; the boundary     *)
(* values weight = 300 and height = 3 are accepted, and every input that   *)
(* passes all four checks returns a value.                                 *)
C22_BmiValidationOrder ==
    fn = "bmi"
    => LET invalid(message) ==
               ~out.ok /\ out.err = "ValueError" /\ out.msg = message
       IN  /\ IF args.weight <= 0
              THEN invalid("Weight must be positive")
              ELSE IF args.weight > 30000
              THEN invalid("Weight must be lower than 300 kilograms")
              ELSE IF args.height <= 0
              THEN invalid("Height must be positive")
              ELSE IF args.height > 300
              THEN invalid("Height must be lower than 3 meters (did you provide centimeters?)")
              ELSE out.ok
           /\ (args.weight = 30000 /\ args.height = 300) => out.ok

(* bmi(300, 3) = 33.3: both boundary values are accepted.                  *)
C22_Witness ==
    /\ fn = "bmi"
    /\ args.weight = 30000 /\ args.height = 300
    /\ out.ok
    /\ out.val = 3330

(* Both a weight above 300 and a height of zero: the weight is reported.   *)
C22_WitnessOrder ==
    /\ fn = "bmi"
    /\ args.weight > 30000 /\ args.height <= 0
    /\ ~out.ok
    /\ out.msg = "Weight must be lower than 300 kilograms"

(* C29: bmi_with_category(weight, height) returns a (BMI, category) pair   *)
(* for every input that bmi(weight, height) accepts, and                   *)
(* bmi_with_category_cm does so for every input bmi_from_cm accepts: the   *)
(* categorisation step never raises on a BMI value produced by bmi.        *)
C29_CategoryNeverRaises ==
    /\ (fn = "bmi_with_category" /\ bmi(args.weight, args.height).ok)
       => /\ out.ok
          /\ out.val[1] = bmi(args.weight, args.height).val
          /\ out.val[2] \in BMICategory
    /\ (fn = "bmi_with_category_cm"
        /\ bmi_from_cm(args.weight, args.height_cm).ok)
       => /\ out.ok
          /\ out.val[1] = bmi_from_cm(args.weight, args.height_cm).val
          /\ out.val[2] \in BMICategory

(***************************************************************************)
(* pulmonary.py: Geneva scores and the PERC rule.  Ages and heart rates    *)
(* are integers; the oxygen saturation (per cent) is counted in tenths:    *)
(* 95.0 is 950.  An Optional[int] is <<>> for None and <<n>> for n.        *)
(***************************************************************************)

GenevaRiskLevel == {"LOW", "INTERMEDIATE", "HIGH"}

(* @dataclass GenevaScore *)
GenevaScore(score, risk_level, pe_probability) ==
    [score |-> score, risk_level |-> risk_level,
     pe_probability |-> pe_probability]

(* @dataclass PERCResult *)
PERCResult(positive_criteria, positive, recommendation) ==
    [positive_criteria |-> positive_criteria, positive |-> positive,
     recommendation |-> recommendation]

(* PERCResult.__bool__ *)
PERCResult_bool(self) == self.positive

Count(b) == IF b THEN 1 ELSE 0

geneva_age_points_mutant(age) ==
    IF 60 < age /\ age <= 79 THEN 1
    ELSE IF age >= 80 THEN 2
    ELSE 0

(* pulmonary.py lines 75-79 *)
geneva_age_points(age) ==
    IF 60 <= age /\ age <= 79 THEN 1
    ELSE IF age >= 80 THEN 2
    ELSE 0

geneva_risk_mutant(score) ==
    IF score <= 3 THEN <<"LOW", "8%">>
    ELSE IF score <= 8 THEN <<"HIGH", "74%">>
    ELSE <<"INTERMEDIATE", "28%">>

(* pulmonary.py lines 99-108 *)
geneva_risk(score) ==
    IF score <= 3 THEN <<"LOW", "8%">>
    ELSE IF score <= 8 THEN <<"INTERMEDIATE", "28%">>
    ELSE <<"HIGH", "74%">>

geneva_score(age, previous_pe_dvt, heart_rate_over_100, recent_surgery, hemoptysis, active_cancer, unilateral_leg_pain, unilateral_leg_edema, pain_on_palpation) ==
    IF age <= 0
    THEN Raise("ValueError", "Age must be positive")
    ELSE LET score == geneva_age_points(age)
                      + Count(previous_pe_dvt)
                      + Count(heart_rate_over_100)
                      + Count(recent_surgery)
                      + Count(hemoptysis)
                      + Count(active_cancer)
                      + Count(unilateral_leg_pain)
                      + Count(unilateral_leg_edema)
                      + Count(pain_on_palpation)
             risk == geneva_risk(score)
         IN  Return(GenevaScore(score, risk[1], risk[2]))

geneva_revised_hr_points_mutant(heart_rate) ==
    IF heart_rate # None
    THEN IF 75 <= heart_rate[1] /\ heart_rate[1] <= 94 THEN 3
         ELSE IF heart_rate[1] > 95 THEN 5
         ELSE 0
    ELSE 0

(* pulmonary.py lines 158-163 *)
geneva_revised_hr_points(heart_rate) ==
    IF heart_rate # None
    THEN IF 75 <= heart_rate[1] /\ heart_rate[1] <= 94 THEN 3
         ELSE IF heart_rate[1] >= 95 THEN 5
         ELSE 0
    ELSE 0

(* pulmonary.py lines 181-190 *)
geneva_revised_risk(score) ==
    IF score <= 3 THEN <<"LOW", "8%">>
    ELSE IF score <= 10 THEN <<"INTERMEDIATE", "28%">>
    ELSE <<"HIGH", "74%">>

geneva_revised_score(age, previous_pe_dvt, heart_rate, recent_surgery, hemoptysis, active_cancer, unilateral_leg_pain, unilateral_leg_edema, pain_on_palpation) ==
    IF age <= 0
    THEN Raise("ValueError", "Age must be positive")
    ELSE IF heart_rate # None /\ (heart_rate[1] <= 0 \/ heart_rate[1] > 300)
    THEN Raise("ValueError", "Heart rate must be between 1 and 300 bpm")
    ELSE LET score == (IF age >= 65 THEN 1 ELSE 0)
                      + geneva_revised_hr_points(heart_rate)
                      + (IF previous_pe_dvt THEN 3 ELSE 0)
                      + (IF recent_surgery THEN 2 ELSE 0)
                      + (IF hemoptysis THEN 2 ELSE 0)
                      + (IF active_cancer THEN 2 ELSE 0)
                      + (IF unilateral_leg_pain THEN 3 ELSE 0)
                      + (IF unilateral_leg_edema THEN 4 ELSE 0)
                      + (IF pain_on_palpation THEN 4 ELSE 0)
             risk == geneva_revised_risk(score)
         IN  Return(GenevaScore(score, risk[1], risk[2]))

perc_oxygen_criterion_mutant(oxygen_saturation) == oxygen_saturation <= 950

(* pulmonary.py line 242: oxygen_saturation < 95.0 *)
perc_oxygen_criterion(oxygen_saturation) == oxygen_saturation < 950

(* str(criteria_count) for the counts the rule can reach. *)
Digits == <<"1", "2", "3", "4", "5", "6", "7", "8">>

(* pulmonary.py lines 258-261 *)
perc_recommendation(perc_positive, criteria_count) ==
    IF ~perc_positive
    THEN "PERC negative - PE can be ruled out without further testing in low-risk patients"
    ELSE "PERC positive (" \o Digits[criteria_count]
         \o " criteria) - Further evaluation needed"

perc_rule_mutant(age, heart_rate, oxygen_saturation, unilateral_leg_swelling, hemoptysis, recent_surgery_trauma, prior_pe_dvt, hormone_use) ==
    IF age <= 0
    THEN Raise("ValueError", "Age must be positive")
    ELSE IF heart_rate <= 0 \/ heart_rate > 300
    THEN Raise("ValueError", "Heart rate must be between 1 and 300 bpm")
    ELSE IF oxygen_saturation < 0 \/ oxygen_saturation > 1000
    THEN Raise("ValueError", "Oxygen saturation must be between 0 and 100%")
    ELSE LET criteria_count == Count(age >= 50)
                               + Count(heart_rate >= 100)
                               + Count(perc_oxygen_criterion(oxygen_saturation))
                               + Count(unilateral_leg_swelling)
                               + Count(hemoptysis)
                               + Count(recent_surgery_trauma)
                               + Count(prior_pe_dvt)
                               + Count(hormone_use)
             perc_positive == criteria_count > 0
         IN  Return(PERCResult(criteria_count, perc_positive,
                               perc_recommendation(perc_positive,
                                                   criteria_count)))

perc_rule(age, heart_rate, oxygen_saturation, unilateral_leg_swelling, hemoptysis, recent_surgery_trauma, prior_pe_dvt, hormone_use) ==
    IF age <= 0
    THEN Raise("ValueError", "Age must be positive")
    ELSE IF heart_rate <= 0 \/ heart_rate > 300
    THEN Raise("ValueError", "Heart rate must be between 1 and 300 bpm")
    ELSE IF oxygen_saturation <= 0 \/ oxygen_saturation > 1000
    THEN Raise("ValueError", "Oxygen saturation must be between 0 and 100%")
    ELSE LET criteria_count == Count(age >= 50)
                               + Count(heart_rate >= 100)
                               + Count(perc_oxygen_criterion(oxygen_saturation))
                               + Count(unilateral_leg_swelling)
                               + Count(hemoptysis)
                               + Count(recent_surgery_trauma)
                               + Count(prior_pe_dvt)
                               + Count(hormone_use)
             perc_positive == criteria_count > 0
         IN  Return(PERCResult(criteria_count, perc_positive,
                               perc_recommendation(perc_positive,
                                                   criteria_count)))

(* Ages tried by each rule: around zero and around its age brackets.       *)
GenevaAgeInputs == Window(0) \cup Window(60) \cup Window(80)

GenevaRevisedAgeInputs == Window(0) \cup Window(65)

PercAgeInputs == Window(0) \cup Window(50)

(* Heart rates tried: around zero, each bracket and the 300 bpm limit.     *)
GenevaRevisedHeartRateInputs ==
    {None} \cup { Some(n) : n \in Window(0) \cup Window(75) \cup Window(95)
                                    \cup Window(300) }

PercHeartRateInputs == Window(0) \cup Window(100) \cup Window(300)

(* Saturations tried: around 0 %, 95.0 % and 100 %.                        *)
OxygenSaturationInputs == Window(0) \cup Window(950) \cup Window(1000)

Call_geneva_score ==
    /\ fn = "idle"
    /\ \E age \in GenevaAgeInputs, previous_pe_dvt \in BOOLEAN,
          heart_rate_over_100 \in BOOLEAN, recent_surgery \in BOOLEAN,
          hemoptysis \in BOOLEAN, active_cancer \in BOOLEAN,
          unilateral_leg_pain \in BOOLEAN, unilateral_leg_edema \in BOOLEAN,
          pain_on_palpation \in BOOLEAN :
          /\ fn' = "geneva_score"
          /\ args' = [age |-> age, previous_pe_dvt |-> previous_pe_dvt,
                      heart_rate_over_100 |-> heart_rate_over_100,
                      recent_surgery |-> recent_surgery,
                      hemoptysis |-> hemoptysis,
                      active_cancer |-> active_cancer,
                      unilateral_leg_pain |-> unilateral_leg_pain,
                      unilateral_leg_edema |-> unilateral_leg_edema,
                      pain_on_palpation |-> pain_on_palpation]
          /\ out' = geneva_score(age, previous_pe_dvt, heart_rate_over_100,
                                 recent_surgery, hemoptysis, active_cancer,
                                 unilateral_leg_pain, unilateral_leg_edema,
                                 pain_on_palpation)

Call_geneva_revised_score ==
    /\ fn = "idle"
    /\ \E age \in GenevaRevisedAgeInputs, previous_pe_dvt \in BOOLEAN,
          heart_rate \in GenevaRevisedHeartRateInputs,
          recent_surgery \in BOOLEAN, hemoptysis \in BOOLEAN,
          active_cancer \in BOOLEAN, unilateral_leg_pain \in BOOLEAN,
          unilateral_leg_edema \in BOOLEAN, pain_on_palpation \in BOOLEAN :
          /\ fn' = "geneva_revised_score"
          /\ args' = [age |-> age, previous_pe_dvt |-> previous_pe_dvt,
                      heart_rate |-> heart_rate,
                      recent_surgery |-> recent_surgery,
                      hemoptysis |-> hemoptysis,
                      active_cancer |-> active_cancer,
                      unilateral_leg_pain |-> unilateral_leg_pain,
                      unilateral_leg_edema |-> unilateral_leg_edema,
                      pain_on_palpation |-> pain_on_palpation]
          /\ out' = geneva_revised_score(age, previous_pe_dvt, heart_rate,
                                         recent_surgery, hemoptysis,
                                         active_cancer, unilateral_leg_pain,
                                         unilateral_leg_edema,
                                         pain_on_palpation)

Call_perc_rule ==
    /\ fn = "idle"
    /\ \E age \in PercAgeInputs, heart_rate \in PercHeartRateInputs,
          oxygen_saturation \in OxygenSaturationInputs,
          unilateral_leg_swelling \in BOOLEAN, hemoptysis \in BOOLEAN,
          recent_surgery_trauma \in BOOLEAN, prior_pe_dvt \in BOOLEAN,
          hormone_use \in BOOLEAN :
          /\ fn' = "perc_rule"
          /\ args' = [age |-> age, heart_rate |-> heart_rate,
                      oxygen_saturation |-> oxygen_saturation,
                      unilateral_leg_swelling |-> unilateral_leg_swelling,
                      hemoptysis |-> hemoptysis,
                      recent_surgery_trauma |-> recent_surgery_trauma,
                      prior_pe_dvt |-> prior_pe_dvt,
                      hormone_use |-> hormone_use]
          /\ out' = perc_rule(age, heart_rate, oxygen_saturation,
                              unilateral_leg_swelling, hemoptysis,
                              recent_surgery_trauma, prior_pe_dvt,
                              hormone_use)

NextPulmonary ==
    \/ Call_geneva_score
    \/ Call_geneva_revised_score
    \/ Call_perc_rule
    \/ Done

SpecPulmonary == Init /\ [][NextPulmonary]_vars

(* The number of true values among a sequence of booleans. *)
NumTrue(flags) == Cardinality({ k \in DOMAIN flags : flags[k] })

(* C8: for every accepted input perc_rule returns positive_criteria equal  *)
(* to the number of the eight criteria that hold (age >= 50, heart_rate >= *)
(* 100, oxygen_saturation < 95.0, each of the five flags), so it lies in   *)
(* 0..8; positive = (positive_criteria > 0); the truth value of the result *)
(* record equals positive.                                                 *)
C8_PercCriteriaCount ==
    (/\ fn = "perc_rule"
     /\ args.age > 0
     /\ 0 < args.heart_rate /\ args.heart_rate <= 300
     /\ 0 < args.oxygen_saturation /\ args.oxygen_saturation <= 1000)
    => /\ out.ok
       /\ out.val.positive_criteria
             = NumTrue(<<args.age >= 50, args.heart_rate >= 100,
                         args.oxygen_saturation < 950,
                         args.unilateral_leg_swelling, args.hemoptysis,
                         args.recent_surgery_trauma, args.prior_pe_dvt,
                         args.hormone_use>>)
       /\ out.val.positive_criteria \in 0..8
       /\ out.val.positive = (out.val.positive_criteria > 0)
       /\ PERCResult_bool(out.val) = out.val.positive

(* A saturation of exactly 95.0 % is not a criterion: a 49-year-old with   *)
(* heart rate 99 and no flag is PERC negative.                             *)
C8_Witness ==
    /\ fn = "perc_rule"
    /\ args.age = 49 /\ args.heart_rate = 99 /\ args.oxygen_saturation = 950
    /\ out.ok
    /\ out.val.positive_criteria = 0
    /\ ~PERCResult_bool(out.val)

(* C9: for every age > 0 and every assignment of its eight boolean factors *)
(* geneva_score returns score = agePoints + number of true factors, with   *)
(* agePoints 1 for 60..79, 2 for age >= 80 and 0 otherwise, so score is in *)
(* 0..10; risk level and probability are (LOW, "8%") exactly when score <= *)
(* 3, (INTERMEDIATE, "28%") exactly when 4 <= score <= 8, (HIGH, "74%")    *)
(* exactly when score >= 9.                                                *)
C9_GenevaScore ==
    (fn = "geneva_score" /\ args.age > 0)
    => LET agePoints == CASE 60 <= args.age /\ args.age <= 79 -> 1
                          [] args.age >= 80 -> 2
                          [] OTHER -> 0
           r == out.val
           risk == <<r.risk_level, r.pe_probability>>
       IN  /\ out.ok
           /\ r.score = agePoints
                 + NumTrue(<<args.previous_pe_dvt, args.heart_rate_over_100,
                             args.recent_surgery, args.hemoptysis,
                             args.active_cancer, args.unilateral_leg_pain,
                             args.unilateral_leg_edema,
                             args.pain_on_palpation>>)
           /\ r.score \in 0..10
           /\ r.risk_level \in GenevaRiskLevel
           /\ (risk = <<"LOW", "8%">>) <=> (r.score <= 3)
           /\ (risk = <<"INTERMEDIATE", "28%">>)
                 <=> (4 <= r.score /\ r.score <= 8)
           /\ (risk = <<"HIGH", "74%">>) <=> (r.score >= 9)
           /\ risk \in {<<"LOW", "8%">>, <<"INTERMEDIATE", "28%">>,
                        <<"HIGH", "74%">>}

(* The lowest HIGH score: age 60 with all eight factors scores 9.          *)
C9_Witness ==
    /\ fn = "geneva_score"
    /\ args.age = 60
    /\ out.ok
    /\ out.val.score = 9
    /\ out.val.risk_level = "HIGH"
    /\ out.val.pe_probability = "74%"

(* C10: for every accepted input geneva_revised_score returns score =      *)
(* (1 if age >= 65) + hrPoints + 3*previous_pe_dvt + 2*recent_surgery +    *)
(* 2*hemoptysis + 2*active_cancer + 3*unilateral_leg_pain +                *)
(* 4*unilateral_leg_edema + 4*pain_on_palpation, with hrPoints 3 for 75 <= *)
(* heart_rate <= 94, 5 for heart_rate >= 95, 0 for heart_rate < 75 or      *)
(* None; the score is in 0..26 and maps to (LOW, "8%") exactly when score  *)
(* <= 3, (INTERMEDIATE, "28%") exactly when 4 <= score <= 10, (HIGH,       *)
(* "74%") exactly when score >= 11.                                        *)
C10_GenevaRevisedScore ==
    (/\ fn = "geneva_revised_score"
     /\ args.age > 0
     /\ \/ args.heart_rate = None
        \/ (0 < args.heart_rate[1] /\ args.heart_rate[1] <= 300))
    => LET hr == args.heart_rate
           hrPoints == CASE hr = None -> 0
                         [] hr # None /\ hr[1] < 75 -> 0
                         [] hr # None /\ 75 <= hr[1] /\ hr[1] <= 94 -> 3
                         [] hr # None /\ hr[1] >= 95 -> 5
           bit(b) == IF b THEN 1 ELSE 0
           r == out.val
           risk == <<r.risk_level, r.pe_probability>>
       IN  /\ out.ok
           /\ r.score = bit(args.age >= 65) + hrPoints
                 + 3 * bit(args.previous_pe_dvt) + 2 * bit(args.recent_surgery)
                 + 2 * bit(args.hemoptysis) + 2 * bit(args.active_cancer)
                 + 3 * bit(args.unilateral_leg_pain)
                 + 4 * bit(args.unilateral_leg_edema)
                 + 4 * bit(args.pain_on_palpation)
           /\ r.score \in 0..26
           /\ (risk = <<"LOW", "8%">>) <=> (r.score <= 3)
           /\ (risk = <<"INTERMEDIATE", "28%">>)
                 <=> (4 <= r.score /\ r.score <= 10)
           /\ (risk = <<"HIGH", "74%">>) <=> (r.score >= 11)
           /\ risk \in {<<"LOW", "8%">>, <<"INTERMEDIATE", "28%">>,
                        <<"HIGH", "74%">>}

(* The highest score: age 65, heart rate 95 and every factor score 26.     *)
C10_Witness ==
    /\ fn = "geneva_revised_score"
    /\ args.age = 65 /\ args.heart_rate = Some(95)
    /\ out.ok
    /\ out.val.score = 26
    /\ out.val.risk_level = "HIGH"
    /\ out.val.pe_probability = "74%"

(* C24: perc_rule raises the invalid-input error, in this order, when age  *)
(* <= 0, when heart_rate <= 0 or heart_rate > 300, or when                 *)
(* oxygen_saturation <= 0 or oxygen_saturation > 100 (saturation 0 is      *)
(* rejected, 100 and heart rate 300 are accepted); geneva_score and        *)
(* geneva_revised_score raise when age <= 0, and geneva_revised_score      *)
(* additionally raises when heart_rate is given and is <= 0 or > 300,      *)
(* while heart_rate = None is never rejected.                              *)
C24_PulmonaryValidation ==
    LET invalid(message) ==
            ~out.ok /\ out.err = "ValueError" /\ out.msg = message
    IN  /\ fn = "perc_rule" =>
             IF args.age <= 0
             THEN invalid("Age must be positive")
             ELSE IF args.heart_rate < 1 \/ args.heart_rate > 300
             THEN invalid("Heart rate must be between 1 and 300 bpm")
             ELSE IF args.oxygen_saturation < 1
                     \/ args.oxygen_saturation > 1000
             THEN invalid("Oxygen saturation must be between 0 and 100%")
             ELSE out.ok
        /\ fn = "geneva_score" =>
             IF args.age <= 0
             THEN invalid("Age must be positive")
             ELSE out.ok
        /\ fn = "geneva_revised_score" =>
             IF args.age <= 0
             THEN invalid("Age must be positive")
             ELSE IF args.heart_rate = None
             THEN out.ok
             ELSE IF args.heart_rate[1] < 1 \/ args.heart_rate[1] > 300
             THEN invalid("Heart rate must be between 1 and 300 bpm")
             ELSE out.ok

(* perc_rule at heart rate 300 and saturation 100 % is accepted.           *)
C24_Witness ==
    /\ fn = "perc_rule"
    /\ args.age > 0
    /\ args.heart_rate = 300
    /\ args.oxygen_saturation = 1000
    /\ out.ok

(* perc_rule at saturation 0 is rejected.                                  *)
C24_WitnessZeroSaturation ==
    /\ fn = "perc_rule"
    /\ args.age > 0
    /\ args.heart_rate = 300
    /\ args.oxygen_saturation = 0
    /\ ~out.ok
    /\ out.msg = "Oxygen saturation must be between 0 and 100%"

(***************************************************************************)
(* The four integer scores together: chads_vasc_score of cardio.py and the *)
(* three rules of pulmonary.py.                                            *)
(***************************************************************************)

NextScores ==
    \/ Call_chads_vasc_score
    \/ Call_geneva_score
    \/ Call_geneva_revised_score
    \/ Call_perc_rule
    \/ Done

SpecScores == Init /\ [][NextScores]_vars

(* Each score function applied to a record of its arguments.               *)
ChadsAt(a) ==
    chads_vasc_score(a.age, a.sex, a.chf, a.hypertension,
                     a.stroke_vascular_history, a.diabetes,
                     a.vascular_disease)

GenevaAt(a) ==
    geneva_score(a.age, a.previous_pe_dvt, a.heart_rate_over_100,
                 a.recent_surgery, a.hemoptysis, a.active_cancer,
                 a.unilateral_leg_pain, a.unilateral_leg_edema,
                 a.pain_on_palpation)

GenevaRevisedAt(a) ==
    geneva_revised_score(a.age, a.previous_pe_dvt, a.heart_rate,
                         a.recent_surgery, a.hemoptysis, a.active_cancer,
                         a.unilateral_leg_pain, a.unilateral_leg_edema,
                         a.pain_on_palpation)

PercAt(a) ==
    perc_rule(a.age, a.heart_rate, a.oxygen_saturation,
              a.unilateral_leg_swelling, a.hemoptysis,
              a.recent_surgery_trauma, a.prior_pe_dvt, a.hormone_use)

(* The argument records that differ from the current call's in one risk    *)
(* input only, moved towards higher risk: one boolean risk factor among    *)
(* flags turned from false to true, or a higher age.                       *)
RiskRaised(flags, ages) ==
    {[args EXCEPT ![k] = TRUE] : k \in {f \in flags : ~args[f]}}
        \cup {[args EXCEPT !.age = a] : a \in {b \in ages : b > args.age}}

RiskRank(level) ==
    CASE level = "LOW" -> 0
      [] level = "INTERMEDIATE" -> 1
      [] level = "HIGH" -> 2

(* C30: the integer scores are monotone in their risk inputs: for          *)
(* chads_vasc_score, geneva_score, geneva_revised_score and perc_rule,     *)
(* changing any single boolean risk factor from false to true, or          *)
(* increasing age (and, for geneva_revised_score and perc_rule, increasing *)
(* heart rate within 1..300; for perc_rule, decreasing oxygen saturation   *)
(* within its valid range) with all other inputs fixed never decreases the *)
(* score / positive_criteria, never lowers the Geneva risk level, and      *)
(* never turns a positive PERC result negative.                            *)
C30_ScoresMonotone ==
    /\ (fn = "chads_vasc_score" /\ out.ok) =>
         \A a \in RiskRaised({"chf", "hypertension",
                              "stroke_vascular_history", "diabetes",
                              "vascular_disease"}, ChadsAgeInputs) :
            ChadsAt(a).ok /\ ChadsAt(a).val >= out.val
    /\ (fn = "geneva_score" /\ out.ok) =>
         \A a \in RiskRaised({"previous_pe_dvt", "heart_rate_over_100",
                              "recent_surgery", "hemoptysis",
                              "active_cancer", "unilateral_leg_pain",
                              "unilateral_leg_edema", "pain_on_palpation"},
                             GenevaAgeInputs) :
            /\ GenevaAt(a).ok
            /\ GenevaAt(a).val.score >= out.val.score
            /\ RiskRank(GenevaAt(a).val.risk_level)
                   >= RiskRank(out.val.risk_level)
    /\ (fn = "geneva_revised_score" /\ out.ok) =>
         \A a \in RiskRaised({"previous_pe_dvt", "recent_surgery",
                              "hemoptysis", "active_cancer",
                              "unilateral_leg_pain", "unilateral_leg_edema",
                              "pain_on_palpation"}, GenevaRevisedAgeInputs)
                  \cup {[args EXCEPT !.heart_rate = h] :
                          h \in {g \in GenevaRevisedHeartRateInputs :
                                   /\ args.heart_rate # None
                                   /\ g # None
                                   /\ g[1] > args.heart_rate[1]
                                   /\ g[1] <= 300}} :
            /\ GenevaRevisedAt(a).ok
            /\ GenevaRevisedAt(a).val.score >= out.val.score
            /\ RiskRank(GenevaRevisedAt(a).val.risk_level)
                   >= RiskRank(out.val.risk_level)
    /\ (fn = "perc_rule" /\ out.ok) =>
         \A a \in RiskRaised({"unilateral_leg_swelling", "hemoptysis",
                              "recent_surgery_trauma", "prior_pe_dvt",
                              "hormone_use"}, PercAgeInputs)
                  \cup {[args EXCEPT !.heart_rate = h] :
                          h \in {g \in PercHeartRateInputs :
                                   g > args.heart_rate /\ g <= 300}}
                  \cup {[args EXCEPT !.oxygen_saturation = o] :
                          o \in {q \in OxygenSaturationInputs :
                                   q < args.oxygen_saturation /\ q > 0}} :
            /\ PercAt(a).ok
            /\ PercAt(a).val.positive_criteria >= out.val.positive_criteria
            /\ out.val.positive => PercAt(a).val.positive

(* geneva_score at age 79 with seven risk factors: score 8, INTERMEDIATE;  *)
(* one more year of age makes it 9, HIGH.                                  *)
C30_Witness ==
    /\ fn = "geneva_score"
    /\ args.age = 79
    /\ out.ok
    /\ out.val.score = 8
    /\ out.val.risk_level = "INTERMEDIATE"
    /\ GenevaAt([args EXCEPT !.age = 80]).val.risk_level = "HIGH"

(* perc_rule at 95.0 % saturation with no criterion met is negative; at    *)
(* 94.9 % it is positive.                                                  *)
C30_WitnessPerc ==
    /\ fn = "perc_rule"
    /\ args.oxygen_saturation = 950
    /\ out.ok
    /\ ~out.val.positive
    /\ PercAt([args EXCEPT !.oxygen_saturation = 949]).val.positive

(***************************************************************************)
(* renal.py.  Ages are whole years, weights are counted in tenths of a     *)
(* kilogram, creatinine in hundredths of a mg/dL and heights in whole      *)
(* centimetres; the optional height is None or Some(height).               *)
(***************************************************************************)

(* ((140 - age) * weight) / (72 * creatinine), times 0.85 = 17/20 for      *)
(* FEMALE, rounded to an integer.  creatinine is not zero here.            *)
cockcroft_gault_clearance(age, weight, creatinine, sex) ==
    IF sex = FEMALE
    THEN RoundHalfEven((140 - age) * weight * 10 * 17, 72 * creatinine * 20)
    ELSE RoundHalfEven((140 - age) * weight * 10, 72 * creatinine)

cockcroft_gault(age, weight, creatinine, sex, height) ==
    IF ~(weight > 0)
    THEN Raise("AssertionError", "Weight must be positive")
    ELSE IF ~(weight < 4000)
    THEN Raise("AssertionError", "Weight must be less than 400 kg")
    ELSE IF ~(age > 0)
    THEN Raise("AssertionError", "Age must be positive")
    ELSE IF ~(creatinine >= 0)
    THEN Raise("AssertionError", "Creatinine must be non-negative")
    ELSE IF ~(sex \in {MALE, FEMALE})
    THEN Raise("AssertionError", "Sex must be 'm' or 'f'")
    ELSE IF ~(height = None \/ (0 < height[1] /\ height[1] < 150))
    THEN Raise("AssertionError",
               "Height must be positive and less than 150 cm")
    ELSE IF creatinine = 0
    THEN Raise("ZeroDivisionError", "division by zero")
    ELSE Return(cockcroft_gault_clearance(age, weight, creatinine, sex))

(* Ages tried: around zero, around 50 and around 140 years.                *)
RenalAgeInputs == Window(0) \cup Window(50) \cup Window(140)

(* Weights tried: around zero, around 70 kg and around 400 kg.             *)
RenalWeightInputs == Window(0) \cup Window(700) \cup Window(4000)

(* Creatinine values tried: around zero and around 1.0 mg/dL.              *)
CreatinineInputs == Window(0) \cup Window(100)

(* Heights tried: omitted, and around zero, 150 cm and 175 cm.             *)
RenalHeightInputs ==
    {None} \cup {Some(h) : h \in Window(0) \cup Window(150) \cup Window(175)}

Call_cockcroft_gault ==
    /\ fn = "idle"
    /\ \E age \in RenalAgeInputs, weight \in RenalWeightInputs,
          creatinine \in CreatinineInputs, sex \in SexInputs,
          height \in RenalHeightInputs :
          /\ fn' = "cockcroft_gault"
          /\ args' = [age |-> age, weight |-> weight,
                      creatinine |-> creatinine, sex |-> sex,
                      height |-> height]
          /\ out' = cockcroft_gault(age, weight, creatinine, sex, height)

EthnicalRace == {"african_american", "european", "other"}

AFRICAN_AMERICAN == "african_american"

EUROPEAN == "european"

(* EthnicalRace.OTHER (OTHER alone is a reserved word here).               *)
OTHER_RACE == "other"

(* An estimated GFR: a product of real powers, which integer arithmetic    *)
(* cannot compute, kept as the term naming the expression and the numbers  *)
(* it is evaluated at, followed by the correction factors (in thousandths) *)
(* it was multiplied by, in the order of the multiplications.              *)
Egfr(expression, creatinine, age, kappa, alpha) ==
    [expression |-> expression, creatinine |-> creatinine, age |-> age,
     kappa |-> kappa, alpha |-> alpha, factors |-> <<>>]

(* egfr * factor.  Multiplying a float by 1.0 leaves it as it is.          *)
Times(egfr, factor) ==
    IF factor = 1000 THEN egfr
    ELSE [egfr EXCEPT !.factors = Append(@, factor)]

mdrd_mutant(creatinine, age, sex, race) ==
    IF ~(creatinine > 0)
    THEN Raise("AssertionError", "Creatinine must be positive")
    ELSE IF ~(age > 0)
    THEN Raise("AssertionError", "Age must be positive")
    ELSE IF ~(sex \in {MALE, FEMALE})
    THEN Raise("AssertionError", "Sex must be Sex.MALE|Sex.FEMALE")
    ELSE LET r == IF race = None THEN OTHER_RACE ELSE race[1]
             egfr == Egfr("175 * creatinine**-1.154 * age**-0.203",
                          creatinine, age, 0, 0)
             egfr2 == IF sex = FEMALE THEN Times(egfr, 742) ELSE egfr
         IN  Return(IF r # OTHER_RACE THEN Times(egfr2, 1212) ELSE egfr2)

(* race is None when the caller leaves it out: the default is              *)
(* EthnicalRace.OTHER.  The MDRD expression has no kappa and no alpha.     *)
mdrd(creatinine, age, sex, race) ==
    IF ~(creatinine > 0)
    THEN Raise("AssertionError", "Creatinine must be positive")
    ELSE IF ~(age > 0)
    THEN Raise("AssertionError", "Age must be positive")
    ELSE IF ~(sex \in {MALE, FEMALE})
    THEN Raise("AssertionError", "Sex must be Sex.MALE|Sex.FEMALE")
    ELSE LET r == IF race = None THEN OTHER_RACE ELSE race[1]
             egfr == Egfr("175 * creatinine**-1.154 * age**-0.203",
                          creatinine, age, 0, 0)
             egfr2 == IF sex = FEMALE THEN Times(egfr, 742) ELSE egfr
         IN  Return(IF r = AFRICAN_AMERICAN THEN Times(egfr2, 1212)
                    ELSE egfr2)

(* kappa is counted in tenths, alpha and sex_factor in thousandths.        *)
ckd_epi(creatinine, age, sex, race) ==
    IF ~(creatinine > 0)
    THEN Raise("AssertionError", "Creatinine must be positive")
    ELSE IF ~(age > 0)
    THEN Raise("AssertionError", "Age must be positive")
    ELSE IF ~(sex \in {MALE, FEMALE})
    THEN Raise("AssertionError", "Sex must be Sex.MALE|Sex.FEMALE")
    ELSE LET r == IF race = None THEN OTHER_RACE ELSE race[1]
             kappa == IF sex = FEMALE THEN 7 ELSE 9
             alpha == IF sex = FEMALE THEN -329 ELSE -411
             sex_factor == IF sex = FEMALE THEN 1018 ELSE 1000
             egfr == Times(Egfr("141 * min_term * max_term * 0.993**age",
                                creatinine, age, kappa, alpha), sex_factor)
         IN  Return(IF r = AFRICAN_AMERICAN THEN Times(egfr, 1159)
                    ELSE egfr)

(* Races tried: left out, and each member.                                 *)
RaceInputs == {None} \cup {Some(r) : r \in EthnicalRace}

Call_mdrd ==
    /\ fn = "idle"
    /\ \E creatinine \in CreatinineInputs, age \in RenalAgeInputs,
          sex \in SexInputs, race \in RaceInputs :
          /\ fn' = "mdrd"
          /\ args' = [creatinine |-> creatinine, age |-> age, sex |-> sex,
                      race |-> race]
          /\ out' = mdrd(creatinine, age, sex, race)

Call_ckd_epi ==
    /\ fn = "idle"
    /\ \E creatinine \in CreatinineInputs, age \in RenalAgeInputs,
          sex \in SexInputs, race \in RaceInputs :
          /\ fn' = "ckd_epi"
          /\ args' = [creatinine |-> creatinine, age |-> age, sex |-> sex,
                      race |-> race]
          /\ out' = ckd_epi(creatinine, age, sex, race)

NextRenal ==
    \/ Call_cockcroft_gault
    \/ Call_mdrd
    \/ Call_ckd_epi
    \/ Done

SpecRenal == Init /\ [][NextRenal]_vars

(* The arguments of the current cockcroft_gault call other than creatinine *)
(* and height are valid.                                                   *)
CockcroftGaultOtherwiseValid ==
    /\ args.weight > 0 /\ args.weight < 4000
    /\ args.age > 0
    /\ args.sex \in {MALE, FEMALE}

(* C12: cockcroft_gault called with a non-positive creatinine (creatinine  *)
(* = 0 included) and otherwise valid arguments fails with the              *)
(* invalid-input error during validation, and no call to cockcroft_gault   *)
(* ends in any other kind of failure, such as a division by zero.  Either  *)
(* exception class the library's validation raises counts as the           *)
(* invalid-input error here.                                               *)
C12_CreatinineValidated ==
    fn = "cockcroft_gault"
    => /\ (/\ CockcroftGaultOtherwiseValid
           /\ args.height = None
           /\ args.creatinine <= 0) => ~out.ok
       /\ ~out.ok => out.err \in {"ValueError", "AssertionError"}

(* C20: the optional height of cockcroft_gault has no effect: for every    *)
(* otherwise valid input and every positive height the call has the same   *)
(* outcome as the call with height = None.                                 *)
C20_HeightHasNoEffect ==
    (/\ fn = "cockcroft_gault"
     /\ CockcroftGaultOtherwiseValid
     /\ args.creatinine > 0
     /\ args.height # None
     /\ args.height[1] > 0)
    => out = cockcroft_gault(args.age, args.weight, args.creatinine,
                             args.sex, None)

(* A call of mdrd or ckd_epi with valid creatinine, age and sex.           *)
EgfrValid ==
    /\ fn \in {"mdrd", "ckd_epi"}
    /\ args.creatinine > 0
    /\ args.age > 0
    /\ args.sex \in {MALE, FEMALE}

(* The outcome of the current mdrd or ckd_epi call had it been made with   *)
(* the given sex and race.                                                 *)
EgfrWith(sex, race) ==
    IF fn = "mdrd"
    THEN mdrd(args.creatinine, args.age, sex, Some(race))
    ELSE ckd_epi(args.creatinine, args.age, sex, Some(race))

(* C26: in mdrd and ckd_epi the race correction is applied only for        *)
(* AFRICAN_AMERICAN: for every valid creatinine, age and sex the results   *)
(* for EUROPEAN and for OTHER are identical, and the AFRICAN_AMERICAN      *)
(* result equals the OTHER result multiplied by 1.212 (mdrd) or 1.159      *)
(* (ckd_epi); the sex correction multiplies only the FEMALE result (0.742  *)
(* in mdrd, 1.018 in ckd_epi, 0.85 before rounding in cockcroft_gault).    *)
C26_RaceAndSexCorrection ==
    /\ EgfrValid =>
         LET other == EgfrWith(args.sex, OTHER_RACE)
             race_factor == IF fn = "mdrd" THEN 1212 ELSE 1159
             sex_factor == IF fn = "mdrd" THEN 742 ELSE 1018
         IN  /\ out.ok /\ other.ok
             /\ args.race \in {None, Some(OTHER_RACE), Some(EUROPEAN)}
                => out = other
             /\ EgfrWith(args.sex, EUROPEAN) = other
             /\ args.race = Some(AFRICAN_AMERICAN)
                => /\ out.val = Times(other.val, race_factor)
                   /\ out.val # other.val
             /\ EgfrWith(MALE, OTHER_RACE).val.factors = <<>>
             /\ EgfrWith(FEMALE, OTHER_RACE).val.factors = <<sex_factor>>
             /\ fn = "mdrd"
                => EgfrWith(FEMALE, OTHER_RACE).val
                       = Times(EgfrWith(MALE, OTHER_RACE).val, sex_factor)
    /\ (fn = "cockcroft_gault" /\ out.ok) =>
         LET unscaled == (140 - args.age) * args.weight * 10
             divisor == 72 * args.creatinine
         IN  IF args.sex = FEMALE
             \* out.val is the integer nearest to 0.85 * unscaled / divisor
             THEN /\ 2 * (20 * divisor * out.val - 17 * unscaled)
                         <= 20 * divisor
                  /\ 2 * (17 * unscaled - 20 * divisor * out.val)
                         <= 20 * divisor
             \* out.val is the integer nearest to unscaled / divisor
             ELSE /\ 2 * (divisor * out.val - unscaled) <= divisor
                  /\ 2 * (unscaled - divisor * out.val) <= divisor

(* mdrd for a FEMALE, AFRICAN_AMERICAN patient: the base value times 0.742 *)
(* times 1.212.                                                            *)
C26_Witness ==
    /\ fn = "mdrd"
    /\ EgfrValid
    /\ args.sex = FEMALE
    /\ args.race = Some(AFRICAN_AMERICAN)
    /\ out.ok
    /\ out.val.factors = <<742, 1212>>

(* cockcroft_gault(50, 70, 1.0, FEMALE) = round(0.85 * 87.5) = 74.         *)
C26_WitnessCockcroftGault ==
    /\ fn = "cockcroft_gault"
    /\ args.age = 50 /\ args.weight = 700 /\ args.creatinine = 100
    /\ args.sex = FEMALE
    /\ out.ok
    /\ out.val = 74

(***************************************************************************)
(* converters.py.  A float is a record: a finite number counted in         *)
(* hundredths (argument) or thousandths (result), positive or negative     *)
(* infinity, or not-a-number.  A date is a record of year, month and day   *)
(* that names a day of the calendar.                                       *)
(***************************************************************************)

Finite(v) == [kind |-> "finite", v |-> v]

PosInf == [kind |-> "inf", v |-> 0]

NegInf == [kind |-> "-inf", v |-> 0]

NaN == [kind |-> "nan", v |-> 0]

umoll2mgdl_mutant(umoll) ==
    IF umoll.kind = "inf"
    THEN Raise("ValueError", "Cannot convert infinity to mg/dL")
    ELSE IF umoll.kind = "-inf"
    THEN Raise("ValueError", "Cannot convert infinity to mg/dL")
    ELSE IF umoll.kind = "nan"
    THEN Return(NaN)
    ELSE Return(Finite(RoundHalfEven(umoll.v * 1801528, 10000)))

(* umoll * 18.01528: umoll in hundredths, the product in thousandths.      *)
(* Not-a-number equals neither infinity and multiplies to not-a-number.    *)
umoll2mgdl(umoll) ==
    IF umoll.kind = "inf"
    THEN Raise("ValueError", "Cannot convert infinity to mg/dL")
    ELSE IF umoll.kind = "-inf"
    THEN Raise("ValueError", "Cannot convert negative infinity to mg/dL")
    ELSE IF umoll.kind = "nan"
    THEN Return(NaN)
    ELSE Return(Finite(RoundHalfEven(umoll.v * 1801528, 10000)))

(* mgdl / 18.01528: mgdl in hundredths, the quotient in thousandths.       *)
mgdl2umoll(mgdl) ==
    IF mgdl.kind = "inf"
    THEN Raise("ValueError", "Cannot convert infinity to mg/dL")
    ELSE IF mgdl.kind = "-inf"
    THEN Raise("ValueError", "Cannot convert negative infinity to mg/dL")
    ELSE IF mgdl.kind = "nan"
    THEN Return(NaN)
    ELSE Return(Finite(RoundHalfEven(mgdl.v * 1000000, 1801528)))

(* calendar.isleap                                                         *)
isleap(year) == year % 4 = 0 /\ (year % 100 # 0 \/ year % 400 = 0)

(* calendar.monthrange(year, month)[1]: the number of days of the month.   *)
monthrange(year, month) ==
    IF month = 2 THEN (IF isleap(year) THEN 29 ELSE 28)
    ELSE IF month \in {4, 6, 9, 11} THEN 30
    ELSE 31

(* datetime.date accepts exactly the days of the calendar.                 *)
date(year, month, day) == [year |-> year, month |-> month, day |-> day]

IsDate(year, month, day) ==
    /\ month \in 1..12
    /\ day \in 1..monthrange(year, month)

dob2age_mutant(dob, today) ==
    IF \/ today.month < dob.month
       \/ (today.month = dob.month /\ today.day <= dob.day)
    THEN today.year - dob.year - 1
    ELSE today.year - dob.year

(* today is given_date, or the current date when none is given.            *)
dob2age(dob, today) ==
    IF \/ today.month < dob.month
       \/ (today.month = dob.month /\ today.day < dob.day)
    THEN today.year - dob.year - 1
    ELSE today.year - dob.year

days_in_prev_month_mutant(today) ==
    monthrange(today.year, today.month)

(* The days of the month before today's: December of the year before when *)
(* today is in January.                                                    *)
days_in_prev_month(today) ==
    IF today.month = 1
    THEN monthrange(today.year - 1, 12)
    ELSE monthrange(today.year, today.month - 1)

dob2age_tuple_mutant(dob, today) ==
    LET years == today.year - dob.year
        months == today.month - dob.month
        days == today.day - dob.day
        months2 == IF days < 0 THEN months - 1 ELSE months
        days2 == IF days < 0 THEN days + days_in_prev_month(today) ELSE days
    IN  IF months2 <= 0
        THEN <<years - 1, months2 + 12, days2>>
        ELSE <<years, months2, days2>>

dob2age_tuple(dob, today) ==
    LET years == today.year - dob.year
        months == today.month - dob.month
        days == today.day - dob.day
        months2 == IF days < 0 THEN months - 1 ELSE months
        days2 == IF days < 0 THEN days + days_in_prev_month(today) ELSE days
    IN  IF months2 < 0
        THEN <<years - 1, months2 + 12, days2>>
        ELSE <<years, months2, days2>>

(* Floats tried: finite values around zero and around 1.00, both           *)
(* infinities and not-a-number.                                            *)
FloatInputs ==
    {Finite(v) : v \in Window(0) \cup Window(100)} \cup {PosInf, NegInf, NaN}

(* Months tried: around February and around the turn of the year.          *)
MonthInputs == (Window(2) \cup Window(12)) \cap (1..12)

(* Days tried: around the first and around the ends of the months.         *)
DayInputs == (Window(1) \cup Window(29) \cup Window(30)) \cap (1..31)

(* Birth dates around the leap year 2000; reference dates around 2000 and  *)
(* around 2023 (2024 is a leap year, 2023 is not).                         *)
DobInputs ==
    {r \in [year : Window(2000), month : MonthInputs, day : DayInputs] :
        IsDate(r.year, r.month, r.day)}

TodayInputs ==
    {r \in [year : Window(2000) \cup Window(2023), month : MonthInputs,
            day : DayInputs] : IsDate(r.year, r.month, r.day)}

Call_umoll2mgdl ==
    /\ fn = "idle"
    /\ \E umoll \in FloatInputs :
          /\ fn' = "umoll2mgdl"
          /\ args' = [x |-> umoll]
          /\ out' = umoll2mgdl(umoll)

Call_mgdl2umoll ==
    /\ fn = "idle"
    /\ \E mgdl \in FloatInputs :
          /\ fn' = "mgdl2umoll"
          /\ args' = [x |-> mgdl]
          /\ out' = mgdl2umoll(mgdl)

(* given_date is Some(date), or None and the clock supplies today.         *)
Call_dob2age ==
    /\ fn = "idle"
    /\ \E dob \in DobInputs, today \in TodayInputs, given \in BOOLEAN :
          /\ fn' = "dob2age"
          /\ args' = [dob |-> dob, today |-> today,
                      given_date |-> IF given THEN Some(today) ELSE None]
          /\ out' = Return(dob2age(dob, today))

Call_dob2age_tuple ==
    /\ fn = "idle"
    /\ \E dob \in DobInputs, today \in TodayInputs, given \in BOOLEAN :
          /\ fn' = "dob2age_tuple"
          /\ args' = [dob |-> dob, today |-> today,
                      given_date |-> IF given THEN Some(today) ELSE None]
          /\ out' = Return(dob2age_tuple(dob, today))

NextConverters ==
    \/ Call_umoll2mgdl
    \/ Call_mgdl2umoll
    \/ Call_dob2age
    \/ Call_dob2age_tuple
    \/ Done

SpecConverters == Init /\ [][NextConverters]_vars

(* (month, day) of today comes before (month, day) of dob in the order of  *)
(* the calendar year.                                                      *)
BeforeBirthday ==
    100 * args.today.month + args.today.day
        < 100 * args.dob.month + args.dob.day

(* C13: dob2age(dob, ref) returns ref.year - dob.year, decremented by one  *)
(* exactly when (ref.month, ref.day) is lexicographically before           *)
(* (dob.month, dob.day); it returns 0 when ref = dob, counts the birthday  *)
(* itself as reached, and for a 29 February birth date treats 28 February  *)
(* as before the birthday and 1 March as after it in every year.           *)
C13_Dob2Age ==
    fn = "dob2age"
    => LET diff == args.today.year - args.dob.year
           feb29 == args.dob.month = 2 /\ args.dob.day = 29
       IN  /\ out.ok
           /\ out.val = diff - (IF BeforeBirthday THEN 1 ELSE 0)
           /\ args.today = args.dob => out.val = 0
           /\ (/\ args.today.month = args.dob.month
               /\ args.today.day = args.dob.day) => out.val = diff
           /\ (/\ feb29
               /\ args.today.month = 2
               /\ args.today.day = 28) => out.val = diff - 1
           /\ (/\ feb29
               /\ args.today.month = 3
               /\ args.today.day = 1) => out.val = diff

(* Born 2000-02-29: on 2023-02-28 the birthday is still ahead (age 22).    *)
C13_Witness ==
    /\ fn = "dob2age"
    /\ args.dob = date(2000, 2, 29)
    /\ args.today = date(2023, 2, 28)
    /\ out.val = 22

(* The days of the calendar month before ref's month, as the claim lists   *)
(* them.                                                                   *)
PrecedingMonthDays ==
    LET m == args.today.month
        y == args.today.year
    IN  IF m = 1 THEN 31
        ELSE IF m = 3
        THEN (IF y % 4 = 0 /\ (y % 100 # 0 \/ y % 400 = 0) THEN 29 ELSE 28)
        ELSE IF m \in {5, 7, 10, 12} THEN 30
        ELSE 31

(* C14: dob2age_tuple(dob, ref) starts from the component-wise differences *)
(* (years, months, days); when the day difference is negative it           *)
(* decrements months by one and adds the number of days of the calendar    *)
(* month preceding ref's month (December of the previous year when ref is  *)
(* in January, 29 for February of a leap year and 28 otherwise); then,     *)
(* when months is negative, it decrements years by one and adds 12 to      *)
(* months.                                                                 *)
C14_Dob2AgeTuple ==
    fn = "dob2age_tuple"
    => LET y0 == args.today.year - args.dob.year
           m0 == args.today.month - args.dob.month
           d0 == args.today.day - args.dob.day
           borrowDays == IF d0 < 0 THEN 1 ELSE 0
           m1 == m0 - borrowDays
           borrowMonths == IF m1 < 0 THEN 1 ELSE 0
       IN  /\ out.ok
           /\ out.val[1] = y0 - borrowMonths
           /\ out.val[2] = m1 + 12 * borrowMonths
           /\ out.val[3] = d0 + borrowDays * PrecedingMonthDays

(* Born 2000-02-29, on 2023-02-28: both borrows happen, the days borrowed  *)
(* are those of January: (22, 11, 30).                                     *)
C14_Witness ==
    /\ fn = "dob2age_tuple"
    /\ args.dob = date(2000, 2, 29)
    /\ args.today = date(2023, 2, 28)
    /\ out.val = <<22, 11, 30>>

(* Born 2000-02-29, on 2000-03-01: the days borrowed are the 29 of a leap  *)
(* February: (0, 0, 1).                                                    *)
C14_WitnessLeapFebruary ==
    /\ fn = "dob2age_tuple"
    /\ args.dob = date(2000, 2, 29)
    /\ args.today = date(2000, 3, 1)
    /\ out.val = <<0, 0, 1>>

DobNotAfterToday ==
    10000 * args.dob.year + 100 * args.dob.month + args.dob.day
        <= 10000 * args.today.year + 100 * args.today.month + args.today.day

(* C27: for every pair of valid calendar dates with dob <= ref,            *)
(* dob2age_tuple(dob, ref) returns (years, months, days) with years >= 0,  *)
(* 0 <= months <= 11 and days >= 0 (no component is negative after         *)
(* borrowing).                                                             *)
C27_TupleNonNegative ==
    (fn = "dob2age_tuple" /\ DobNotAfterToday)
    => /\ out.ok
       /\ out.val[1] >= 0
       /\ 0 <= out.val[2] /\ out.val[2] <= 11
       /\ out.val[3] >= 0

(* C28: for every pair of valid calendar dates dob and ref, the years      *)
(* component of dob2age_tuple(dob, ref) equals dob2age(dob, ref); and      *)
(* whenever dob <= ref, dob2age(dob, ref) >= 0.                            *)
C28_TupleYearsAreAge ==
    /\ fn = "dob2age_tuple"
       => out.ok /\ out.val[1] = dob2age(args.dob, args.today)
    /\ fn = "dob2age"
       => /\ out.ok
          /\ out.val = dob2age_tuple(args.dob, args.today)[1]
          /\ DobNotAfterToday => out.val >= 0

(* Born 2000-12-30, on 2000-12-29 of the same year, a reference date       *)
(* before the birth date: both functions give -1 years.                    *)
C28_Witness ==
    /\ fn = "dob2age_tuple"
    /\ args.dob = date(2000, 12, 30)
    /\ args.today = date(2000, 12, 29)
    /\ out.val[1] = -1
    /\ dob2age(args.dob, args.today) = -1

(* Born 2000-02-29, on 2024-02-28: the day before the 24th birthday.       *)
C28_WitnessBirthdayAhead ==
    /\ fn = "dob2age_tuple"
    /\ args.dob = date(2000, 2, 29)
    /\ args.today = date(2024, 2, 28)
    /\ out.val[1] = 23

(***************************************************************************)
(* cardiac.py: the corrected QT interval.  The QT interval (ms) is counted *)
(* in hundredths, the heart rate is an integer and the result is counted   *)
(* in tenths; the optional formula is None when the caller leaves it out.  *)
(***************************************************************************)

QtcCorrectionType == {"bazett", "fridericia", "framingham", "hodges"}

BAZETT == "bazett"

FRIDERICIA == "fridericia"

FRAMINGHAM == "framingham"

HODGES == "hodges"

(* round(qt_interval / rr_interval ** exponent, 1) with rr_interval =      *)
(* 60.0 / heart_rate.  At heart_rate = 60 the quotient 60.0 / 60 is 1.0,   *)
(* 1.0 to any power is 1.0 and qt_interval / 1.0 is qt_interval.  At any   *)
(* other heart rate the root is not computed: the value is kept as the     *)
(* term naming the expression and the numbers it is evaluated at.          *)
qtc_root(expression, qt_interval, heart_rate) ==
    IF heart_rate = 60
    THEN RoundHalfEven(qt_interval, 10)
    ELSE [expression |-> expression, qt_interval |-> qt_interval,
          heart_rate |-> heart_rate]

(* round(qt_interval + 154 * (1 - rr_interval), 1): in hundredths the sum  *)
(* is (qt_interval * heart_rate + 15400 * (heart_rate - 60)) / heart_rate. *)
qtc_framingham(qt_interval, heart_rate) ==
    RoundHalfEven(qt_interval * heart_rate + 15400 * (heart_rate - 60),
                  10 * heart_rate)

qtc_hodges_mutant(qt_interval, heart_rate) ==
    RoundHalfEven(qt_interval + 175 * (heart_rate - 61), 10)

(* round(qt_interval + 1.75 * (heart_rate - 60), 1)                        *)
qtc_hodges(qt_interval, heart_rate) ==
    RoundHalfEven(qt_interval + 175 * (heart_rate - 60), 10)

qtc_correction_mutant(qt_interval, heart_rate, formula) ==
    LET f == IF formula = None THEN BAZETT ELSE formula[1]
    IN  IF qt_interval <= 0
        THEN Raise("ValueError", "QT interval must be positive")
        ELSE IF heart_rate <= 0
        THEN Raise("ValueError", "Heart rate must be positive")
        ELSE IF heart_rate >= 300
        THEN Raise("ValueError", "Heart rate must be <= 300 bpm")
        ELSE IF f = BAZETT
        THEN Return(qtc_root("qt_interval / rr_interval**0.5",
                             qt_interval, heart_rate))
        ELSE IF f = FRIDERICIA
        THEN Return(qtc_root("qt_interval / rr_interval**(1/3)",
                             qt_interval, heart_rate))
        ELSE IF f = FRAMINGHAM
        THEN Return(qtc_framingham(qt_interval, heart_rate))
        ELSE IF f = HODGES
        THEN Return(qtc_hodges(qt_interval, heart_rate))
        ELSE Raise("ValueError", "Unsupported formula: " \o f)

(* formula is None when the caller leaves it out: the default is           *)
(* QtcCorrectionType.BAZETT.                                               *)
qtc_correction(qt_interval, heart_rate, formula) ==
    LET f == IF formula = None THEN BAZETT ELSE formula[1]
    IN  IF qt_interval <= 0
        THEN Raise("ValueError", "QT interval must be positive")
        ELSE IF heart_rate <= 0
        THEN Raise("ValueError", "Heart rate must be positive")
        ELSE IF heart_rate > 300
        THEN Raise("ValueError", "Heart rate must be <= 300 bpm")
        ELSE IF f = BAZETT
        THEN Return(qtc_root("qt_interval / rr_interval**0.5",
                             qt_interval, heart_rate))
        ELSE IF f = FRIDERICIA
        THEN Return(qtc_root("qt_interval / rr_interval**(1/3)",
                             qt_interval, heart_rate))
        ELSE IF f = FRAMINGHAM
        THEN Return(qtc_framingham(qt_interval, heart_rate))
        ELSE IF f = HODGES
        THEN Return(qtc_hodges(qt_interval, heart_rate))
        ELSE Raise("ValueError", "Unsupported formula: " \o f)

(* QT intervals tried: around zero, around 387.48 ms and around 400 ms.    *)
QtIntervalInputs == Window(0) \cup Window(38748) \cup Window(40000)

(* Heart rates tried: around zero, around 60 and around 300 bpm.           *)
QtcHeartRateInputs == Window(0) \cup Window(60) \cup Window(300)

(* Formulas tried: left out, each member, and a value that is no member.   *)
QtcFormulaInputs ==
    {None} \cup {Some(f) : f \in QtcCorrectionType \cup {"invalid"}}

Call_qtc_correction ==
    /\ fn = "idle"
    /\ \E qt_interval \in QtIntervalInputs,
          heart_rate \in QtcHeartRateInputs, formula \in QtcFormulaInputs :
          /\ fn' = "qtc_correction"
          /\ args' = [qt_interval |-> qt_interval,
                      heart_rate |-> heart_rate, formula |-> formula]
          /\ out' = qtc_correction(qt_interval, heart_rate, formula)

NextCardiac ==
    \/ Call_qtc_correction
    \/ Done

SpecCardiac == Init /\ [][NextCardiac]_vars

(* C17: for every positive QT interval qt, qtc_correction(qt, 60, formula) *)
(* returns qt rounded to one decimal place for each of the four formulas   *)
(* BAZETT, FRIDERICIA, FRAMINGHAM and HODGES.                              *)
C17_QtcIdentityAt60 ==
    (/\ fn = "qtc_correction"
     /\ args.qt_interval > 0
     /\ args.heart_rate = 60
     /\ args.formula \in {Some(f) : f \in QtcCorrectionType})
    => /\ out.ok
       \* out.val / 10 is the decimal nearest to qt
       /\ 2 * (10 * out.val - args.qt_interval) <= 10
       /\ 2 * (args.qt_interval - 10 * out.val) <= 10

(* qtc_correction(387.48, 60, HODGES) = 387.5                              *)
C17_Witness ==
    /\ fn = "qtc_correction"
    /\ args.qt_interval = 38748
    /\ args.heart_rate = 60
    /\ args.formula = Some(HODGES)
    /\ out.ok
    /\ out.val = 3875

(* C23: qtc_correction validates in the fixed order qt_interval <= 0,      *)
(* heart_rate <= 0, heart_rate > 300 and only then the formula selector:   *)
(* an unsupported formula raises the invalid-input error only when the     *)
(* numeric arguments are valid, heart_rate = 300 is accepted, and omitting *)
(* the formula gives the same result as passing BAZETT.                    *)
C23_QtcValidationOrder ==
    fn = "qtc_correction"
    => LET invalid(message) ==
               ~out.ok /\ out.err = "ValueError" /\ out.msg = message
           unsupported ==
               /\ args.formula # None
               /\ args.formula[1] \notin QtcCorrectionType
       IN  /\ IF args.qt_interval <= 0
              THEN invalid("QT interval must be positive")
              ELSE IF args.heart_rate <= 0
              THEN invalid("Heart rate must be positive")
              ELSE IF args.heart_rate > 300
              THEN invalid("Heart rate must be <= 300 bpm")
              ELSE IF unsupported
              THEN invalid("Unsupported formula: " \o args.formula[1])
              ELSE out.ok
           /\ (/\ args.qt_interval > 0
               /\ args.heart_rate = 300
               /\ ~unsupported) => out.ok
           /\ args.formula = None
              => out = qtc_correction(args.qt_interval, args.heart_rate,
                                      Some(BAZETT))

(* Heart rate 300 with the formula left out is accepted.                   *)
C23_Witness ==
    /\ fn = "qtc_correction"
    /\ args.qt_interval = 40000
    /\ args.heart_rate = 300
    /\ args.formula = None
    /\ out.ok

(* An unsupported formula with a heart rate of zero: the heart rate is     *)
(* reported.                                                               *)
C23_WitnessOrder ==
    /\ fn = "qtc_correction"
    /\ args.qt_interval > 0
    /\ args.heart_rate = 0
    /\ args.formula = Some("invalid")
    /\ ~out.ok
    /\ out.msg = "Heart rate must be positive"

====
